---- MODULE Spec2Model ----
(***************************************************************************)
(* GoCastify: the casting pipeline as state machines.                      *)
(*   - MediaServer   (package server):     Start / Stop / the serving      *)
(*                                         goroutine / the request handler *)
(*   - Transcoder    (package transcoder): TranscodeToMp4 and its cache    *)
(*   - DeviceController (package dlna):    PlayMediaWithContext            *)
(*   - SSDPDiscoverer (package discovery): StartSearchWithContext          *)
(* Each subsystem has its own specification over its own variables; the    *)
(* variables of the other subsystems stay at their initial values.         *)
(***************************************************************************)
EXTENDS Integers, Sequences, FiniteSets, TLC

(***************************************************************************)
(* Bounds of the model.                                                    *)
(***************************************************************************)
\* goroutines of the application calling MediaServer.Start / Stop
NumCallers == 2
\* http.Server values one MediaServer creates over a run
MaxServers == 3
\* goroutines (request handlers) calling Transcoder.TranscodeToMp4
NumTranscodeCallers == 2
\* runtime.NumCPU() of the machine
NumCPU == 2
\* the clock stops at this hour
MaxClock == 48
\* goroutines calling PlayMediaWithContext on one DeviceController
NumPlayCalls == 2
\* contexts the callers pass to PlayMediaWithContext
NumCtx == 2
\* subscription tasks one SubscriptionManager starts over a run
MaxSubs == 2
\* the largest size in bytes of a file the server serves
FileSize == 2
\* the most services in the serviceList of a device description
MaxServices == 2
\* goroutines that call GetSubtitleTracks / GetAudioTracks
NumTrackCallers == 2
\* streams of one kind that ffprobe reports for a file, at most
MaxTracks == 2
\* responses with a new location that one search hands to its dispatcher
MaxResponses == 7

(***************************************************************************)
(* MediaServer state.                                                      *)
(***************************************************************************)
VARIABLES
    mu,          \* ms.mu: 0 when unlocked, else the caller holding it
    isRunning,   \* ms.isRunning
    mediaPath,   \* ms.mediaPath: "" or a root directory
    httpServer,  \* ms.httpServer: 0 for nil, else the id of an http.Server
    srvState,    \* per http.Server: "none" | "idle" | "listening" | "draining" | "closed"
    gpc,         \* per Start: its serving goroutine: "none" | "spawned" | "serving" | "failed" | "done"
    gsrv,        \* per serving goroutine: the http.Server it called ListenAndServe on
    cleaned,     \* whether Stop has run ms.transcoder.Cleanup() since ms.httpServer was created
    pc,          \* per caller: where it is in Start / Stop
    arg,         \* per caller: the mediaPath argument of its Start in progress
    last,        \* the return statement the last finished Start or Stop left by
    hread        \* the last read of ms.mediaPath by a request handler: "none", "racing" if a
                 \* Start was then between its Lock and its write of the field, else "quiet"

srvVars == <<mu, isRunning, mediaPath, httpServer, srvState, gpc, gsrv, cleaned,
             pc, arg, last, hread>>

(***************************************************************************)
(* Transcoder state.                                                       *)
(***************************************************************************)
VARIABLES
    transcodingCache, \* t.transcodingCache: cache key -> output path (NoPath: no entry)
    cacheExpiry,      \* t.cacheExpiry: cache key -> hour of expiry (NoTime: no entry)
    tempDir,          \* t.tempDir: "tmp", or "" once Cleanup has removed it
    semaphore,        \* len(t.semaphore): the permits taken
    files,            \* the output files that exist on disk
    now,              \* time.Now(), in hours
    tpc,              \* per caller: where it is in TranscodeToMp4
    tkey,             \* per caller: the cache key of its call
    tout,             \* per caller: outputFile of its call
    tret              \* the last return of TranscodeToMp4: how, for which key, with which path,
                      \* held, the permits that were taken when it returned, and evicted,
                      \* the keys whose expired entries the returning step removed

tcVars == <<transcodingCache, cacheExpiry, tempDir, semaphore, files, now,
            tpc, tkey, tout, tret>>

(***************************************************************************)
(* DeviceController state.                                                 *)
(***************************************************************************)
VARIABLES
    ppc,          \* per call: where it is in PlayMediaWithContext
    pctx,         \* per call: the ctx argument of its invocation in progress (0: none)
    ctxDone,      \* per context: whether it has been cancelled
    setSent,      \* per call: SetAVTransportURI requests its invocation put on the wire
    playSent,     \* per call: Play requests its invocation put on the wire
    setRes,       \* per call: "none" | "ok" | "err": how its SetAVTransportURI ended
    playRes,      \* per call: "none" | "ok" | "err": how its Play ended
    subOf,        \* per call: subscription tasks its invocation started
    pret,         \* per call: "none" | "nil" | "set_err" | "ctx_canceled" | "ctx_deadline" | "play_err"
    cancelFunc,   \* sm.cancelFunc: 0 for nil, else the subscription it cancels
    subState,     \* per subscription: "none" | "running" | "returned"
    subCancelled, \* per subscription: whether its cancel function was called
    subCtx        \* per running subscription: the context its subCtx derives from

playVars == <<ppc, pctx, ctxDone, setSent, playSent, setRes, playRes, subOf, pret,
              cancelFunc, subState, subCancelled, subCtx>>

(***************************************************************************)
(* SSDPDiscoverer state: one search session.                               *)
(***************************************************************************)
VARIABLES
    dpc,                \* StartSearchWithContext: "loop" | "dispatch" | "wait" | "copying" | "returned"
    qi,                 \* index into deviceTypes of the query in progress
    results,            \* locations of the current query's responses not yet looked at
    processedLocations, \* processedLocations: the locations dispatched so far
    task,               \* per location: its processResult goroutine
    allDevices,         \* allDevices: dedup key -> the device stored (NoDevice: no entry)
    detailSem,          \* len(semaphore): detail tasks holding a slot
    searchDone,         \* searchCtx.Err() != nil
    found,              \* the devices onDeviceFound was called with
    copied,             \* the slice being built from allDevices on the searchCtx.Done path
    devices,            \* sd.devices
    dret                \* "none" | "done_nil" | "ctx_nil" | "ctx_err" | "fatal"

discVars == <<dpc, qi, results, processedLocations, task, allDevices, detailSem,
              searchDone, found, copied, devices, dret>>

(***************************************************************************)
(* One request to the MediaServer's handler and its response.              *)
(***************************************************************************)
VARIABLES
    hphase,  \* "idle" | "received" | "responded"
    hreq,    \* the request, and what the handler finds on the machine
    hresp    \* what the handler wrote to the http.ResponseWriter

httpVars == <<hphase, hreq, hresp>>

(***************************************************************************)
(* One construction of a DeviceController.                                 *)
(***************************************************************************)
VARIABLES
    cphase,      \* "idle" | "called" | "returned"
    location,    \* the location argument
    desc,        \* what the GET of the location gives: an error or a description
    controller,  \* what NewDeviceControllerWithContext returned
    controller0  \* what the NewDeviceController of the root dlna package returned

ctlVars == <<cphase, location, desc, controller, controller0>>

(***************************************************************************)
(* The track caches of the Transcoder.                                     *)
(***************************************************************************)
VARIABLES
    subtitleTracks,  \* t.subtitleTracks: path -> whether there is an entry, and its tracks
    audioTracks,     \* t.audioTracks: the same for audio
    kpc,             \* per caller: "idle", or "checked" once the cache has missed
    kkind,           \* per caller in a call: "subtitle" (GetSubtitleTracks) or "audio" (GetAudioTracks)
    kpath,           \* per caller in a call: filePath
    kret             \* the last return of either function: how, kind, path, tracks

trkVars == <<subtitleTracks, audioTracks, kpc, kkind, kpath, kret>>

(***************************************************************************)
(* The permit pool of one search, with enough responses to fill it.        *)
(***************************************************************************)
VARIABLES
    fnext,     \* the response the dispatching loop is at; MaxResponses + 1 past the last
    ftask,     \* per response: "none", "spawned", or how its processResult returned
    fsem,      \* len(semaphore)
    fctxDone   \* searchCtx.Err() != nil

poolVars == <<fnext, ftask, fsem, fctxDone>>

(***************************************************************************)
(* The calls of StartSearchWithContext on one SSDPDiscoverer.              *)
(***************************************************************************)
VARIABLES
    session    \* the number of the call of StartSearchWithContext under way or returned

sessVars == <<session>>

(***************************************************************************)
(* All the state, and what the steps of one subsystem leave alone.         *)
(***************************************************************************)
vars == <<srvVars, tcVars, playVars, discVars, httpVars, ctlVars, trkVars, poolVars, sessVars>>
outsideServer == <<tcVars, playVars, discVars, httpVars, ctlVars, trkVars, poolVars, sessVars>>
outsideTranscoder == <<srvVars, playVars, discVars, httpVars, ctlVars, trkVars, poolVars, sessVars>>
outsidePlay == <<srvVars, tcVars, discVars, httpVars, ctlVars, trkVars, poolVars, sessVars>>
outsideDisc == <<srvVars, tcVars, playVars, httpVars, ctlVars, trkVars, poolVars, sessVars>>
outsideHttp == <<srvVars, tcVars, playVars, discVars, ctlVars, trkVars, poolVars, sessVars>>
outsideCtl == <<srvVars, tcVars, playVars, discVars, httpVars, trkVars, poolVars, sessVars>>
outsideTracks == <<srvVars, tcVars, playVars, discVars, httpVars, ctlVars, poolVars, sessVars>>
outsidePool == <<srvVars, tcVars, playVars, discVars, httpVars, ctlVars, trkVars, sessVars>>

Callers == 1..NumCallers
Servers == 1..MaxServers
Roots == {"/r1", "/r2"}

\* NewMediaServer: the zero values of the struct
InitServer ==
    /\ mu = 0
    /\ isRunning = FALSE
    /\ mediaPath = ""
    /\ httpServer = 0
    /\ srvState = [s \in Servers |-> "none"]
    /\ gpc = [s \in Servers |-> "none"]
    /\ gsrv = [s \in Servers |-> 0]
    /\ cleaned = FALSE
    /\ pc = [t \in Callers |-> "idle"]
    /\ arg = [t \in Callers |-> ""]
    /\ last = "none"
    /\ hread = "none"

\* the number of http.Server values created so far
Created == Cardinality({s \in Servers : srvState[s] # "none"})

\* Start calls that have not yet reached their return
StartsInFlight == Cardinality({t \in Callers : pc[t] \in {"start_lock", "start_stop", "start_create"}})

\* (mutant) every Start picks a port of its own
DistinctPorts(s1, s2) == s1 = s2

\* http.Server.Addr: every server of one MediaServer names the same port
SamePort(s1, s2) == TRUE

\* net.Listen on the server's port succeeds only while no listener is open on that port
PortFree(h) == ~\E s \in Servers : srvState[s] = "listening" /\ SamePort(s, h)

\* what a return statement of Start / Stop returns
Ret(how) ==
    CASE how \in {"start_same", "start_new"} -> "url"
      [] how \in {"stop_noop", "stop_ok"} -> "nil"
      [] how = "stop_err" -> "err"
      [] OTHER -> "none"

\* a caller invokes ms.Start(R)
StartCall(t, R) ==
    /\ pc[t] = "idle"
    /\ Created + StartsInFlight < MaxServers
    /\ pc' = [pc EXCEPT ![t] = "start_lock"]
    /\ arg' = [arg EXCEPT ![t] = R]
    /\ UNCHANGED <<mu, isRunning, mediaPath, httpServer, srvState, gpc, gsrv, cleaned, last>>
    /\ UNCHANGED hread
    /\ UNCHANGED outsideServer

\* (mutant) Start without the same-path test: a running server is always stopped
StartEnterNoSamePathTest(t) ==
    /\ pc[t] = "start_lock"
    /\ mu = 0
    /\ mu' = t
    /\ pc' = [pc EXCEPT ![t] = IF isRunning THEN "start_stop" ELSE "start_create"]
    /\ UNCHANGED <<isRunning, mediaPath, httpServer, srvState, gpc, gsrv, cleaned, arg, last>>
    /\ UNCHANGED hread
    /\ UNCHANGED outsideServer

\* Start: ms.mu.Lock(), then the isRunning / same-path test
StartEnter(t) ==
    /\ pc[t] = "start_lock"
    /\ mu = 0
    /\ IF isRunning /\ mediaPath = arg[t]
       THEN \* same root: return GetServerURL(); the deferred Unlock runs
            /\ pc' = [pc EXCEPT ![t] = "idle"]
            /\ arg' = [arg EXCEPT ![t] = ""]
            /\ last' = "start_same"
            /\ mu' = 0
       ELSE IF isRunning
       THEN \* another root: ms.Stop() is called with ms.mu held
            /\ pc' = [pc EXCEPT ![t] = "start_stop"]
            /\ mu' = t
            /\ UNCHANGED <<arg, last>>
       ELSE /\ pc' = [pc EXCEPT ![t] = "start_create"]
            /\ mu' = t
            /\ UNCHANGED <<arg, last>>
    /\ UNCHANGED <<isRunning, mediaPath, httpServer, srvState, gpc, gsrv, cleaned>>
    /\ UNCHANGED hread
    /\ UNCHANGED outsideServer

\* Start, from "ms.mediaPath = mediaPath" to its return
StartCreate(t) ==
    /\ pc[t] = "start_create"
    /\ Created < MaxServers
    /\ LET n == Created + 1 IN
       /\ mediaPath' = arg[t]
       /\ httpServer' = n
       /\ srvState' = [srvState EXCEPT ![n] = "idle"]
       /\ gpc' = [gpc EXCEPT ![n] = "spawned"]
    /\ isRunning' = TRUE
    /\ mu' = 0
    /\ pc' = [pc EXCEPT ![t] = "idle"]
    /\ arg' = [arg EXCEPT ![t] = ""]
    /\ last' = "start_new"
    /\ cleaned' = FALSE
    /\ UNCHANGED gsrv
    /\ UNCHANGED hread
    /\ UNCHANGED outsideServer

\* a caller invokes ms.Stop()
StopCall(t) ==
    /\ pc[t] = "idle"
    /\ pc' = [pc EXCEPT ![t] = "stop_lock"]
    /\ UNCHANGED <<mu, isRunning, mediaPath, httpServer, srvState, gpc, gsrv, cleaned, arg, last>>
    /\ UNCHANGED hread
    /\ UNCHANGED outsideServer

\* where a caller continues when the Stop it is in returns
AfterStop(t) == IF pc[t] = "start_stop" THEN "start_create" ELSE "idle"

\* what Stop's return leaves in the record of returns: a Stop called from
\* inside Start is not a return to the application
StopReturns(t, how) == IF pc[t] = "stop_lock" THEN how ELSE last

\* Stop, called by the application or from inside Start: ms.mu.Lock(), the body,
\* the deferred Unlock.  shutdownErr is what httpServer.Shutdown returned.
StopBody(t, shutdownErr) ==
    /\ pc[t] \in {"stop_lock", "start_stop"}
    /\ mu = 0
    /\ mu' = 0
    /\ pc' = [pc EXCEPT ![t] = AfterStop(t)]
    /\ IF ~isRunning \/ httpServer = 0
       THEN /\ shutdownErr = FALSE
            /\ last' = StopReturns(t, "stop_noop")
            /\ UNCHANGED <<isRunning, srvState, cleaned>>
       ELSE \* Shutdown closes the listeners, then waits for the connections
            \* until its 5 s context ends
            /\ shutdownErr => srvState[httpServer] \in {"listening", "draining"}
            /\ srvState' = [srvState EXCEPT ![httpServer] =
                               IF shutdownErr THEN "draining" ELSE "closed"]
            /\ IF shutdownErr
               THEN /\ last' = StopReturns(t, "stop_err")
                    /\ UNCHANGED <<isRunning, cleaned>>
               ELSE /\ cleaned' = TRUE
                    /\ isRunning' = FALSE
                    /\ last' = StopReturns(t, "stop_ok")
    /\ UNCHANGED <<mediaPath, httpServer, gpc, gsrv, arg>>
    /\ UNCHANGED hread
    /\ UNCHANGED outsideServer

\* the goroutine Start spawned: ms.httpServer.ListenAndServe(); ms.httpServer is
\* read without the mutex, so it is whatever Start stored last.  bindFails is
\* net.Listen failing for a reason outside this MediaServer.
GoListen(s, bindFails) ==
    /\ gpc[s] = "spawned"
    /\ httpServer # 0
    /\ LET h == httpServer IN
       /\ IF srvState[h] \in {"draining", "closed"}
          THEN \* http.ErrServerClosed: the goroutine ends
               /\ bindFails = FALSE
               /\ gpc' = [gpc EXCEPT ![s] = "done"]
               /\ UNCHANGED <<srvState, gsrv>>
          ELSE IF srvState[h] = "idle" /\ PortFree(h) /\ ~bindFails
          THEN /\ gpc' = [gpc EXCEPT ![s] = "serving"]
               /\ gsrv' = [gsrv EXCEPT ![s] = h]
               /\ srvState' = [srvState EXCEPT ![h] = "listening"]
          ELSE /\ gpc' = [gpc EXCEPT ![s] = "failed"]
               /\ UNCHANGED <<srvState, gsrv>>
    /\ UNCHANGED <<mu, isRunning, mediaPath, httpServer, cleaned, pc, arg, last>>
    /\ UNCHANGED hread
    /\ UNCHANGED outsideServer

\* Serve returns: http.ErrServerClosed after a Shutdown, or (acceptFails) an
\* error of Accept, which closes the listener
GoServeReturn(s, acceptFails) ==
    /\ gpc[s] = "serving"
    /\ LET h == gsrv[s] IN
       IF acceptFails
       THEN /\ srvState[h] = "listening"
            /\ srvState' = [srvState EXCEPT ![h] = "idle"]
            /\ gpc' = [gpc EXCEPT ![s] = "failed"]
       ELSE /\ srvState[h] \in {"draining", "closed"}
            /\ gpc' = [gpc EXCEPT ![s] = "done"]
            /\ UNCHANGED srvState
    /\ gsrv' = [gsrv EXCEPT ![s] = 0]
    /\ UNCHANGED <<mu, isRunning, mediaPath, httpServer, cleaned, pc, arg, last>>
    /\ UNCHANGED hread
    /\ UNCHANGED outsideServer

\* the goroutine's error branch: ms.mu.Lock(); ms.isRunning = false; ms.mu.Unlock()
GoFailed(s) ==
    /\ gpc[s] = "failed"
    /\ mu = 0
    /\ isRunning' = FALSE
    /\ gpc' = [gpc EXCEPT ![s] = "done"]
    /\ UNCHANGED <<mu, mediaPath, httpServer, srvState, gsrv, cleaned, pc, arg, last>>
    /\ UNCHANGED hread
    /\ UNCHANGED outsideServer

\* the last connections of a server that is shutting down end
ConnsEnd(s) ==
    /\ srvState[s] = "draining"
    /\ srvState' = [srvState EXCEPT ![s] = "closed"]
    /\ UNCHANGED <<mu, isRunning, mediaPath, httpServer, gpc, gsrv, cleaned, pc, arg, last>>
    /\ UNCHANGED hread
    /\ UNCHANGED outsideServer

\* a handler of a connection of server s runs filepath.Join(ms.mediaPath,
\* r.URL.Path); it takes no lock for the read
HandlerRead(s) ==
    /\ srvState[s] \in {"listening", "draining"}
    /\ hread' = IF \E t \in Callers : pc[t] = "start_create" THEN "racing" ELSE "quiet"
    /\ UNCHANGED <<mu, isRunning, mediaPath, httpServer, srvState, gpc, gsrv, cleaned, pc, arg, last>>
    /\ UNCHANGED outsideServer

(***************************************************************************)
(* Transcoder definitions.                                                 *)
(***************************************************************************)
TCallers == 1..NumTranscodeCallers

\* the entry's time to live: 24 * time.Hour
TTLHours == 24

\* the clock advances in steps of the time to live
ClockStep == TTLHours

\* input files, as <<directory, base name without extension>>
InputFiles == {<<"d1", "x">>, <<"d2", "x">>}
SubtitleIdx == {-1}
AudioIdx == {-1}

\* cacheKey: "<inputFile>_subtitle_<n>_audio_<m>"
CacheKeys == InputFiles \X SubtitleIdx \X AudioIdx

NoPath == <<>>
NoTime == -1

\* the "_sub<n>" / "_audio<m>" part of the output name: present for n >= 0 only
Suffix(i) == IF i >= 0 THEN i ELSE -1

\* outputFile: filepath.Join(t.tempDir, "<base>_transcoded<suffix>.mp4")
OutputFile(dir, k) == <<dir, k[1][2], Suffix(k[2]), Suffix(k[3])>>

OutputFiles == {OutputFile(d, k) : d \in {"tmp", ""}, k \in CacheKeys}

\* maxConcurrentTranscodes: cpuCount / 2, at least 1
PoolSize == IF NumCPU \div 2 < 1 THEN 1 ELSE NumCPU \div 2

NoRet == [how |-> "none", key |-> NoPath, path |-> NoPath, held |-> 0, evicted |-> {}]

\* NewTranscoder
InitTranscoder ==
    /\ transcodingCache = [k \in CacheKeys |-> NoPath]
    /\ cacheExpiry = [k \in CacheKeys |-> NoTime]
    /\ tempDir = "tmp"
    /\ semaphore = 0
    /\ files = {}
    /\ now = 0
    /\ tpc = [c \in TCallers |-> "idle"]
    /\ tkey = [c \in TCallers |-> NoPath]
    /\ tout = [c \in TCallers |-> NoPath]
    /\ tret = NoRet

\* (mutant) a cleanupExpiredCache that finds no entry expired
ExpiredNever(k) == FALSE

\* now.After(expiry)
Expired(k) == cacheExpiry[k] # NoTime /\ now > cacheExpiry[k]

\* cleanupExpiredCache: the keys it finds expired
ExpiredKeys == {k \in CacheKeys : Expired(k)}

\* cleanupExpiredCache: the maps and the disk after it
CacheAfterCleanup == [k \in CacheKeys |-> IF k \in ExpiredKeys THEN NoPath ELSE transcodingCache[k]]
ExpiryAfterCleanup == [k \in CacheKeys |-> IF k \in ExpiredKeys THEN NoTime ELSE cacheExpiry[k]]
FilesAfterCleanup == files \ {transcodingCache[k] : k \in ExpiredKeys}

\* (mutant) getCachedOutput without the os.Stat of the cached file
CacheHitWithoutStat(k) == CacheAfterCleanup[k] # NoPath

\* getCachedOutput: whether it reports a hit for k
CacheHit(k) == CacheAfterCleanup[k] # NoPath /\ CacheAfterCleanup[k] \in FilesAfterCleanup

\* (mutant) a hit that goes on to the permit pool like a miss
AfterLookupAlwaysAcquire(hit, ffmpegFound) == IF ffmpegFound THEN "acquire" ELSE "idle"

\* where TranscodeToMp4 is after getCachedOutput and CheckFFmpeg: a hit has
\* returned, a miss goes on to the permit pool if the tool is installed
AfterLookup(hit, ffmpegFound) == IF ~hit /\ ffmpegFound THEN "acquire" ELSE "idle"

\* a request handler calls TranscodeToMp4(inputFile, subtitleTrackIndex,
\* audioTrackIndex): getCachedOutput(cacheKey), and on a miss CheckFFmpeg()
TranscodeCall(c, k, ffmpegFound) ==
    /\ tpc[c] = "idle"
    /\ CacheHit(k) => ffmpegFound
    /\ files' = FilesAfterCleanup
    /\ cacheExpiry' = IF CacheHit(k) THEN ExpiryAfterCleanup
                      ELSE [ExpiryAfterCleanup EXCEPT ![k] =
                               IF CacheAfterCleanup[k] # NoPath THEN NoTime ELSE @]
    /\ transcodingCache' = IF CacheHit(k) THEN CacheAfterCleanup
                           ELSE [CacheAfterCleanup EXCEPT ![k] = NoPath]
    /\ tpc' = [tpc EXCEPT ![c] = AfterLookup(CacheHit(k), ffmpegFound)]
    /\ tkey' = [tkey EXCEPT ![c] = IF tpc'[c] = "acquire" THEN k ELSE NoPath]
    /\ tret' = IF CacheHit(k)
               THEN [how |-> "hit", key |-> k, path |-> CacheAfterCleanup[k], held |-> semaphore,
                     evicted |-> ExpiredKeys]
               ELSE IF ffmpegFound THEN tret
               ELSE [how |-> "err", key |-> k, path |-> NoPath, held |-> semaphore,
                     evicted |-> ExpiredKeys]
    /\ UNCHANGED <<tempDir, semaphore, now, tout>>
    /\ UNCHANGED outsideTranscoder

\* t.semaphore <- struct{}{}, then outputFile is derived
AcquirePermit(c) ==
    /\ tpc[c] = "acquire"
    /\ semaphore < PoolSize
    /\ semaphore' = semaphore + 1
    /\ tout' = [tout EXCEPT ![c] = OutputFile(tempDir, tkey[c])]
    /\ tpc' = [tpc EXCEPT ![c] = "probe"]
    /\ UNCHANGED <<transcodingCache, cacheExpiry, tempDir, files, now, tkey, tret>>
    /\ UNCHANGED outsideTranscoder

\* (mutant) the permit is not given back when the tool fails
ReleaseUnlessToolFails(path) == IF path = "tool_fail" THEN semaphore ELSE semaphore - 1

\* the deferred <-t.semaphore, which runs on every return path after the acquire
Release(path) == semaphore - 1

\* GetMediaInfo, the pipes and cmd.Start(): outcome is "info_fail", "start_fail" or "started"
StartTool(c, outcome) ==
    /\ tpc[c] = "probe"
    /\ IF outcome = "started"
       THEN /\ files' = files \cup {tout[c]}
            /\ tpc' = [tpc EXCEPT ![c] = "running"]
            /\ UNCHANGED <<semaphore, tkey, tout, tret>>
       ELSE /\ semaphore' = Release(outcome)
            /\ tpc' = [tpc EXCEPT ![c] = "idle"]
            /\ tkey' = [tkey EXCEPT ![c] = NoPath]
            /\ tout' = [tout EXCEPT ![c] = NoPath]
            /\ tret' = [how |-> "err", key |-> tkey[c], path |-> NoPath, held |-> semaphore', evicted |-> {}]
            /\ UNCHANGED files
    /\ UNCHANGED <<transcodingCache, cacheExpiry, tempDir, now>>
    /\ UNCHANGED outsideTranscoder

\* (mutant) the output path is registered whether the tool failed or not
CacheAfterExitAlwaysRegisters(ok, k, out) == [transcodingCache EXCEPT ![k] = out]

\* t.transcodingCache after cmd.Wait() has returned: the output is registered
\* under the key only if the tool exited with success
CacheAfterExit(ok, k, out) == IF ok THEN [transcodingCache EXCEPT ![k] = out] ELSE transcodingCache

\* cmd.Wait() returns: on an error the output file is removed, else the result
\* is registered in the cache for 24 hours
ToolExit(c, ok) ==
    /\ tpc[c] = "running"
    /\ semaphore' = Release(IF ok THEN "ok" ELSE "tool_fail")
    /\ tpc' = [tpc EXCEPT ![c] = "idle"]
    /\ tkey' = [tkey EXCEPT ![c] = NoPath]
    /\ tout' = [tout EXCEPT ![c] = NoPath]
    /\ transcodingCache' = CacheAfterExit(ok, tkey[c], tout[c])
    /\ IF ok
       THEN /\ cacheExpiry' = [cacheExpiry EXCEPT ![tkey[c]] = now + TTLHours]
            /\ files' = files \cup {tout[c]}
            /\ tret' = [how |-> "ran", key |-> tkey[c], path |-> tout[c], held |-> semaphore', evicted |-> {}]
       ELSE /\ files' = files \ {tout[c]}
            /\ tret' = [how |-> "tool_fail", key |-> tkey[c], path |-> NoPath, held |-> semaphore', evicted |-> {}]
            /\ UNCHANGED cacheExpiry
    /\ UNCHANGED <<tempDir, now>>
    /\ UNCHANGED outsideTranscoder

\* (mutant) a Cleanup that keeps the entries that have not expired
EmptyCacheKeepingUnexpired == CacheAfterCleanup

\* make(map[string]string): the path map Cleanup installs
EmptyCache == [k \in CacheKeys |-> NoPath]

\* Cleanup(): expired entries are dropped, the maps are emptied and the scratch
\* directory, if there is one, is removed; removeFails: os.RemoveAll returns
\* an error, which is the one error Cleanup returns
TranscoderCleanup(removeFails) ==
    /\ tempDir # "" \/ \E k \in CacheKeys : transcodingCache[k] # NoPath
    /\ transcodingCache' = EmptyCache
    /\ cacheExpiry' = [k \in CacheKeys |-> NoTime]
    /\ IF tempDir = ""
       THEN /\ ~removeFails
            /\ files' = FilesAfterCleanup
            /\ UNCHANGED tempDir
       ELSE IF removeFails
       THEN /\ files' = FilesAfterCleanup
            /\ UNCHANGED tempDir
       ELSE /\ files' = {f \in FilesAfterCleanup : f[1] # tempDir}
            /\ tempDir' = ""
    /\ UNCHANGED <<semaphore, now, tpc, tkey, tout, tret>>
    /\ UNCHANGED outsideTranscoder

\* time passes
ClockTick ==
    /\ now + ClockStep <= MaxClock
    /\ now' = now + ClockStep
    /\ UNCHANGED <<transcodingCache, cacheExpiry, tempDir, semaphore, files, tpc, tkey, tout, tret>>
    /\ UNCHANGED outsideTranscoder

\* somebody else deletes an output file
DeleteArtifact(f) ==
    /\ f \in files
    /\ files' = files \ {f}
    /\ UNCHANGED <<transcodingCache, cacheExpiry, tempDir, semaphore, now, tpc, tkey, tout, tret>>
    /\ UNCHANGED outsideTranscoder


(***************************************************************************)
(* DeviceController.PlayMediaWithContext and its SubscriptionManager.      *)
(***************************************************************************)
PlayCalls == 1..NumPlayCalls
Ctxs == 1..NumCtx
Subs == 1..MaxSubs

\* http.StatusOK
StatusOK == 200

\* client.Do returned an error, no response
NoResponse == 0

\* how client.Do ends: no response at all, or a response with a status
Responses == {NoResponse, StatusOK, 204, 500}

InitPlay ==
    /\ ppc = [i \in PlayCalls |-> "idle"]
    /\ pctx = [i \in PlayCalls |-> 0]
    /\ ctxDone = [c \in Ctxs |-> FALSE]
    /\ setSent = [i \in PlayCalls |-> 0]
    /\ playSent = [i \in PlayCalls |-> 0]
    /\ setRes = [i \in PlayCalls |-> "none"]
    /\ playRes = [i \in PlayCalls |-> "none"]
    /\ subOf = [i \in PlayCalls |-> 0]
    /\ pret = [i \in PlayCalls |-> "none"]
    /\ cancelFunc = 0
    /\ subState = [s \in Subs |-> "none"]
    /\ subCancelled = [s \in Subs |-> FALSE]
    /\ subCtx = [s \in Subs |-> 0]

SubsStarted == Cardinality({s \in Subs : subState[s] # "none"})
PlaysInFlight == Cardinality({i \in PlayCalls : ppc[i] # "idle"})

\* (mutant) a sendSOAPRequest that does not look at the context
SoapErrorIgnoringCtx(resp, cancelled) == resp # StatusOK

\* sendSOAPRequestWithContext: whether it returns an error
SoapError(resp, cancelled) == cancelled \/ resp # StatusOK

\* client.Do of a request whose context is done already returns the context's
\* error and writes nothing
Transmits(cancelled) == ~cancelled

\* sleepCtx.Err(): Canceled if the caller cancelled ctx, else the deadline of sleepCtx
SleepCtxErr(cancelled) == IF cancelled THEN "ctx_canceled" ELSE "ctx_deadline"

\* (mutant) PlayMediaWithContext going on to the settle delay whatever SetAVTransportURI returned
AfterSetIgnoringError(err) == "settle"

\* PlayMediaWithContext after SetAVTransportURI: return on an error, else the settle delay
AfterSet(err) == IF err THEN "idle" ELSE "settle"

\* PlayMediaWithContext is called with context c: SetAVTransportURI is sent
PlayMediaCall(i, c) ==
    /\ ppc[i] = "idle"
    /\ SubsStarted + PlaysInFlight < MaxSubs
    /\ ppc' = [ppc EXCEPT ![i] = "set"]
    /\ pctx' = [pctx EXCEPT ![i] = c]
    /\ setSent' = [setSent EXCEPT ![i] = IF Transmits(ctxDone[c]) THEN 1 ELSE 0]
    /\ playSent' = [playSent EXCEPT ![i] = 0]
    /\ setRes' = [setRes EXCEPT ![i] = "none"]
    /\ playRes' = [playRes EXCEPT ![i] = "none"]
    /\ subOf' = [subOf EXCEPT ![i] = 0]
    /\ pret' = [pret EXCEPT ![i] = "none"]
    /\ UNCHANGED <<ctxDone, cancelFunc, subState, subCancelled, subCtx>>
    /\ UNCHANGED outsidePlay

\* sendSOAPRequestWithContext("SetAVTransportURI") returns
SetResponse(i, resp) ==
    /\ ppc[i] = "set"
    /\ LET err == SoapError(resp, ctxDone[pctx[i]]) IN
          /\ setRes' = [setRes EXCEPT ![i] = IF err THEN "err" ELSE "ok"]
          /\ ppc' = [ppc EXCEPT ![i] = AfterSet(err)]
          /\ pret' = [pret EXCEPT ![i] = IF err THEN "set_err" ELSE @]
          /\ pctx' = [pctx EXCEPT ![i] = IF AfterSet(err) = "idle" THEN 0 ELSE @]
    /\ UNCHANGED <<ctxDone, setSent, playSent, playRes, subOf,
                   cancelFunc, subState, subCancelled, subCtx>>
    /\ UNCHANGED outsidePlay

\* the select of the settle delay: time.After fires and Play is sent, or
\* sleepCtx (ctx with a timeout of the same delay) is done and the call returns
SettleEnd(i, byTimer) ==
    /\ ppc[i] = "settle"
    /\ IF byTimer
       THEN /\ ppc' = [ppc EXCEPT ![i] = "play"]
            /\ playSent' = [playSent EXCEPT ![i] = IF Transmits(ctxDone[pctx[i]]) THEN @ + 1 ELSE @]
            /\ UNCHANGED <<pret, pctx>>
       ELSE /\ ppc' = [ppc EXCEPT ![i] = "idle"]
            /\ pret' = [pret EXCEPT ![i] = SleepCtxErr(ctxDone[pctx[i]])]
            /\ pctx' = [pctx EXCEPT ![i] = 0]
            /\ UNCHANGED playSent
    /\ UNCHANGED <<ctxDone, setSent, setRes, playRes, subOf,
                   cancelFunc, subState, subCancelled, subCtx>>
    /\ UNCHANGED outsidePlay

\* sendSOAPRequestWithContext("Play") returns
PlayResponse(i, resp) ==
    /\ ppc[i] = "play"
    /\ LET err == SoapError(resp, ctxDone[pctx[i]]) IN
          /\ playRes' = [playRes EXCEPT ![i] = IF err THEN "err" ELSE "ok"]
          /\ ppc' = [ppc EXCEPT ![i] = IF err THEN "idle" ELSE "sub_cancel"]
          /\ pret' = [pret EXCEPT ![i] = IF err THEN "play_err" ELSE @]
          /\ pctx' = [pctx EXCEPT ![i] = IF err THEN 0 ELSE @]
    /\ UNCHANGED <<ctxDone, setSent, playSent, setRes, subOf,
                   cancelFunc, subState, subCancelled, subCtx>>
    /\ UNCHANGED outsidePlay

\* startSubscription, first half: cancel the subscription sm.cancelFunc names
SubCancelOld(i) ==
    /\ ppc[i] = "sub_cancel"
    /\ subCancelled' = IF cancelFunc # 0 THEN [subCancelled EXCEPT ![cancelFunc] = TRUE]
                       ELSE subCancelled
    /\ ppc' = [ppc EXCEPT ![i] = "sub_start"]
    /\ UNCHANGED <<pctx, ctxDone, setSent, playSent, setRes, playRes, subOf, pret,
                   cancelFunc, subState, subCtx>>
    /\ UNCHANGED outsidePlay

\* startSubscription, second half: derive subCtx, store its cancel function,
\* start handleSubscription; PlayMediaWithContext returns nil
SubStartNew(i) ==
    /\ ppc[i] = "sub_start"
    /\ LET s == SubsStarted + 1 IN
          /\ cancelFunc' = s
          /\ subState' = [subState EXCEPT ![s] = "running"]
          /\ subCtx' = [subCtx EXCEPT ![s] = pctx[i]]
    /\ subOf' = [subOf EXCEPT ![i] = @ + 1]
    /\ ppc' = [ppc EXCEPT ![i] = "idle"]
    /\ pret' = [pret EXCEPT ![i] = "nil"]
    /\ pctx' = [pctx EXCEPT ![i] = 0]
    /\ UNCHANGED <<ctxDone, setSent, playSent, setRes, playRes, subCancelled>>
    /\ UNCHANGED outsidePlay

\* the caller cancels a context
CancelCtx(c) ==
    /\ ~ctxDone[c]
    /\ ctxDone' = [ctxDone EXCEPT ![c] = TRUE]
    /\ UNCHANGED <<ppc, pctx, setSent, playSent, setRes, playRes, subOf, pret,
                   cancelFunc, subState, subCancelled, subCtx>>
    /\ UNCHANGED outsidePlay

\* handleSubscription sees its context done and returns
SubExit(s) ==
    /\ subState[s] = "running"
    /\ subCancelled[s] \/ ctxDone[subCtx[s]]
    /\ subState' = [subState EXCEPT ![s] = "returned"]
    /\ subCtx' = [subCtx EXCEPT ![s] = 0]
    /\ UNCHANGED <<ppc, pctx, ctxDone, setSent, playSent, setRes, playRes, subOf, pret,
                   cancelFunc, subCancelled>>
    /\ UNCHANGED outsidePlay

(***************************************************************************)
(* SSDPDiscoverer.StartSearchWithContext.                                  *)
(***************************************************************************)
\* len(deviceTypes): "ssdp:all", MediaRenderer:1, MediaRenderer:2
NumDeviceTypes == 3

\* cap(semaphore): detail requests in flight
DetailPoolSize == 5

\* the description documents on the network: L1 and L2 describe one device
\* (one UDN at two locations), L3 and L4 two devices whose descriptions have no UDN
Locations == {"L1", "L2", "L3", "L4"}

\* detail.Device.UDN of the description at a location
UDNOf(l) == IF l \in {"L1", "L2"} THEN "uuid:A" ELSE ""

NoDevice == "none"

\* (mutant) the dedup map keyed by the location instead of the UDN
DedupKeyByLocation(l) == l

\* the key processResult stores a device under
DedupKey(l) == UDNOf(l)

DedupKeys == {DedupKey(l) : l \in Locations}

InitDisc ==
    /\ dpc = "loop"
    /\ qi = 1
    /\ results = {}
    /\ processedLocations = {}
    /\ task = [l \in Locations |-> "none"]
    /\ allDevices = [k \in DedupKeys |-> NoDevice]
    /\ detailSem = 0
    /\ searchDone = FALSE
    /\ found = <<>>
    /\ copied = {}
    /\ devices = {}
    /\ dret = "none"
    /\ session = 1

\* the values of allDevices
MapValues == {allDevices[k] : k \in DedupKeys} \ {NoDevice}

\* the process has not died of a concurrent map read and write
Alive == dret # "fatal"

\* top of the loop over deviceTypes: leave it when searchCtx is done or the
\* types are exhausted; else ssdp.Search fails (continue) or returns responses R
SearchStep(R, searchFails) ==
    /\ Alive
    /\ dpc = "loop"
    /\ IF qi > NumDeviceTypes \/ searchDone
       THEN /\ dpc' = "wait"
            /\ R = {} /\ ~searchFails
            /\ UNCHANGED <<qi, results>>
       ELSE IF searchFails \/ R = {}
       THEN /\ qi' = qi + 1
            /\ (searchFails => R = {})
            /\ UNCHANGED <<dpc, results>>
       ELSE /\ results' = R
            /\ dpc' = "dispatch"
            /\ UNCHANGED qi
    /\ UNCHANGED <<processedLocations, task, allDevices, detailSem, searchDone,
                   found, copied, devices, dret>>
    /\ UNCHANGED outsideDisc

\* (mutant) a membership test that never finds the location
AlreadyProcessedNever(l) == FALSE

\* processedLocations[res.Location], read under resultMutex
AlreadyProcessed(l) == l \in processedLocations

\* one iteration of the loop over results: skip a location already processed,
\* else mark it, take a slot and start processResult
Dispatch(l) ==
    /\ Alive
    /\ dpc = "dispatch"
    /\ l \in results
    /\ results' = results \ {l}
    /\ IF AlreadyProcessed(l)
       THEN UNCHANGED <<processedLocations, task, detailSem>>
       ELSE /\ detailSem < DetailPoolSize
            /\ processedLocations' = processedLocations \cup {l}
            /\ detailSem' = detailSem + 1
            /\ task' = [task EXCEPT ![l] = "spawned"]
    /\ IF results' = {}
       THEN dpc' = "loop" /\ qi' = qi + 1
       ELSE UNCHANGED <<dpc, qi>>
    /\ UNCHANGED <<allDevices, searchDone, found, copied, devices, dret>>
    /\ UNCHANGED outsideDisc

\* (mutant) a test of the dedup map that never finds the key
ExistsNever(k) == FALSE

\* _, exists := allDevices[udn]
Exists(k) == allDevices[k] # NoDevice

\* (mutant) onDeviceFound called for every fetched description
CallbackFiresOnEveryFetch(stores, fetched) == fetched

\* whether processResult calls onDeviceFound, given that it stores the device
\* (the call is inside the "if !exists" branch, under resultMutex)
CallbackFires(stores, fetched) == stores

\* processResult for location l, to its return. outcome: "skipped" (searchCtx
\* was done at its start), "failed" (getDeviceDetailsWithContext failed) or
\* "fetched". A fetched device is stored, and reported, unless its key is taken.
\* race: what a store does to a copy of allDevices going on at the same time
\* without the mutex: the copy misses it, sees it, or the runtime aborts.
ProcessResult(l, outcome, race) ==
    /\ Alive
    /\ task[l] = "spawned"
    /\ outcome = "skipped" => searchDone
    /\ detailSem' = detailSem - 1
    /\ LET stores == outcome = "fetched" /\ ~Exists(DedupKey(l))
           racing == stores /\ dpc = "copying"
       IN
          /\ (~racing) => race = "unseen"
          /\ task' = [task EXCEPT ![l] =
                         IF outcome = "fetched"
                         THEN (IF stores THEN "admitted" ELSE "duplicate")
                         ELSE outcome]
          /\ allDevices' = IF stores THEN [allDevices EXCEPT ![DedupKey(l)] = l]
                           ELSE allDevices
          /\ found' = IF CallbackFires(stores, outcome = "fetched") THEN Append(found, l) ELSE found
          /\ copied' = IF racing /\ race = "seen" THEN copied \cup {l} ELSE copied
          /\ dret' = IF racing /\ race = "fatal" THEN "fatal" ELSE dret
    /\ UNCHANGED <<dpc, qi, results, processedLocations, searchDone, devices>>
    /\ UNCHANGED outsideDisc

\* the 10 s of searchCtx elapse, or the caller cancels ctx
SearchCtxDone ==
    /\ Alive
    /\ dpc # "returned"
    /\ ~searchDone
    /\ searchDone' = TRUE
    /\ UNCHANGED <<dpc, qi, results, processedLocations, task, allDevices, detailSem,
                   found, copied, devices, dret>>
    /\ UNCHANGED outsideDisc

\* the final select takes doneChan: every processResult has returned
FinishDone ==
    /\ Alive
    /\ dpc = "wait"
    /\ \A l \in Locations : task[l] # "spawned"
    /\ devices' = MapValues
    /\ dret' = "done_nil"
    /\ dpc' = "returned"
    /\ searchDone' = TRUE
    /\ UNCHANGED <<qi, results, processedLocations, task, allDevices, detailSem,
                   found, copied>>
    /\ UNCHANGED outsideDisc

\* the final select takes searchCtx.Done(): allDevices is read without resultMutex
FinishCtxCopy ==
    /\ Alive
    /\ dpc = "wait"
    /\ searchDone
    /\ copied' = MapValues
    /\ dpc' = "copying"
    /\ UNCHANGED <<qi, results, processedLocations, task, allDevices, detailSem,
                   searchDone, found, devices, dret>>
    /\ UNCHANGED outsideDisc

\* ... and the copy becomes sd.devices; nil is returned if it is not empty
FinishCtxReturn ==
    /\ Alive
    /\ dpc = "copying"
    /\ devices' = copied
    /\ dret' = IF copied # {} THEN "ctx_nil" ELSE "ctx_err"
    /\ dpc' = "returned"
    /\ UNCHANGED <<qi, results, processedLocations, task, allDevices, detailSem,
                   searchDone, found, copied>>
    /\ UNCHANGED outsideDisc

\* sessions: the calls of StartSearchWithContext a caller makes one after another
MaxSessions == 2

\* sd.devices = []types.DeviceInfo{}, under devicesMutex
DevicesAtStart == {}

\* the caller calls StartSearchWithContext again after a call has returned:
\* sd.devices is emptied, and searchCtx, allDevices, processedLocations, the
\* semaphore and the callback are this call's own. The processResult goroutines
\* an earlier call left behind hold that call's map, channel and callback.
StartSearch ==
    /\ dpc = "returned"
    /\ session < MaxSessions
    /\ session' = session + 1
    /\ devices' = DevicesAtStart
    /\ dpc' = "loop"
    /\ qi' = 1
    /\ results' = {}
    /\ processedLocations' = {}
    /\ task' = [l \in Locations |-> "none"]
    /\ allDevices' = [k \in DedupKeys |-> NoDevice]
    /\ detailSem' = 0
    /\ searchDone' = FALSE
    /\ found' = <<>>
    /\ copied' = {}
    /\ dret' = "none"
    /\ UNCHANGED <<srvVars, tcVars, playVars, httpVars, ctlVars, trkVars, poolVars>>

(***************************************************************************)
(* MediaServer.handleMediaRequest, as a function of the request.           *)
(***************************************************************************)
Methods == {"GET", "OPTIONS", "POST"}

\* filepath.Ext of the requested path
Exts == {".mp4", ".m4v", ".MKV", ".txt", ""}

\* a part of the Range header between two "-": empty, not an integer, or an integer
EmptyPart == -1
BadPart == -2
RangeParts == {EmptyPart, BadPart} \cup (0..(FileSize + 1))

\* the end a client wrote in the first range of a list: none or an integer
FirstEnds == {EmptyPart} \cup (0..FileSize)

\* the Range header: absent (unit "none"), of another unit, or "bytes=" followed
\* by the parts strings.Split(.., "-") gives: one, two, or the three of a
\* two-range list such as "0-99,200-299", whose second part ("99,200") is not
\* an integer; firstEnd is the end of the first range of such a list (the 99)
RangeHeaders ==
    {[unit |-> u, parts |-> <<>>, firstEnd |-> EmptyPart] : u \in {"none", "items"}}
    \cup {[unit |-> "bytes", parts |-> <<a>>, firstEnd |-> EmptyPart] : a \in RangeParts}
    \cup {[unit |-> "bytes", parts |-> <<a, b>>, firstEnd |-> EmptyPart] :
              a \in RangeParts, b \in RangeParts}
    \cup {[unit |-> "bytes", parts |-> <<a, BadPart, b>>, firstEnd |-> e] :
              a \in RangeParts, b \in RangeParts, e \in FirstEnds}

\* stat: os.Stat of the requested path; ffmpeg: exec.LookPath finds it;
\* transcode: how TranscodeToMp4 ends; served: os.Stat / os.Open of the file
\* that serveFileEfficiently is given; size: fileInfo.Size() of that file;
\* cond: the conditional header of the request, which is none, an
\* If-Modified-Since not before the file's modification time, or an If-Match
\* (the file has no entity tag, so it cannot match)
Conditionals == {"none", "if_modified_since", "if_match"}
Requests ==
    [method : Methods, ext : Exts, stat : {"exists", "absent", "stat_error"},
     ffmpeg : BOOLEAN, transcode : {"ok", "err"},
     served : {"ok", "absent", "open_err"}, size : 0..FileSize, range : RangeHeaders,
     cond : Conditionals]

NoRange == -1

\* a response: status, whether the CORS headers are set, Content-Type, the
\* first and last byte and the total of the Content-Range (NoRange if there is
\* none), the Content-Length the handler sets (NoRange if it sets none), whether
\* Accept-Ranges: bytes is set, and the bytes of the file copied to the body
Resp(st, c, ct, a, b) ==
    [status |-> st, cors |-> c, ctype |-> ct, start |-> a, end |-> b,
     total |-> NoRange, length |-> NoRange, acceptRanges |-> FALSE, body |-> 0]

NoResp == Resp(0, FALSE, "", NoRange, NoRange)

InitHttp ==
    /\ hphase = "idle"
    /\ hreq = [method |-> "GET", ext |-> "", stat |-> "absent", ffmpeg |-> FALSE,
               transcode |-> "err", served |-> "absent", size |-> 0,
               range |-> [unit |-> "none", parts |-> <<>>, firstEnd |-> EmptyPart],
               cond |-> "none"]
    /\ hresp = NoResp

\* strings.ToLower on an extension
ToLower(e) == IF e = ".MKV" THEN ".mkv" ELSE e

supportedTranscodeFormats == {".mkv", ".avi", ".wmv", ".flv", ".mov", ".mpg", ".mpeg", ".webm"}

\* (mutant) a format check that accepts every extension as native
IsSupportedFormatAnyExt(ext) == <<TRUE, FALSE>>

\* transcoder.IsSupportedFormat: <<supported, needTranscode>>
IsSupportedFormat(ext) ==
    IF ToLower(ext) \in {".mp4", ".m4v"} THEN <<TRUE, FALSE>>
    ELSE IF ToLower(ext) \in supportedTranscodeFormats THEN <<TRUE, TRUE>>
    ELSE <<FALSE, FALSE>>

\* ms.fileExists
fileExists(stat) == stat = "exists"

\* the Content-Type serveFileEfficiently sets
MimeType(ext) ==
    IF ToLower(ext) = ".mp4" THEN "video/mp4"
    ELSE IF ToLower(ext) = ".mkv" THEN "video/x-matroska"
    ELSE "application/octet-stream"

IsNumber(part) == part >= 0

\* (mutant) a range check that lets start = fileSize through
StartOutsideFileOffByOne(start, fileSize) == start < 0 \/ start > fileSize

\* handleRangeRequest: "if start < 0 || start >= fileSize"
StartOutsideFile(start, fileSize) == start < 0 \/ start >= fileSize

\* (mutant) a clamp that lets an end before start through
ClampEndOnlyAbove(start, end, fileSize) == IF end >= fileSize THEN fileSize - 1 ELSE end

\* handleRangeRequest: "if end < start || end >= fileSize { end = fileSize - 1 }"
ClampEnd(start, end, fileSize) ==
    IF end < start \/ end >= fileSize THEN fileSize - 1 ELSE end

\* ms.handleRangeRequest
handleRangeRequest(range, ct, fileSize) ==
    LET parsed == range.unit = "bytes" /\ range.parts # <<EmptyPart>>
        start == IF parsed /\ IsNumber(range.parts[1]) THEN range.parts[1] ELSE 0
        end0 == IF parsed /\ Len(range.parts) > 1 /\ IsNumber(range.parts[2])
                THEN range.parts[2] ELSE fileSize - 1
        end == ClampEnd(start, end0, fileSize)
    IN IF StartOutsideFile(start, fileSize)
       THEN [Resp(416, TRUE, "text/plain", NoRange, NoRange) EXCEPT !.acceptRanges = TRUE]
       ELSE [Resp(206, TRUE, ct, start, end) EXCEPT
                !.total = fileSize, !.length = end - start + 1,
                !.acceptRanges = TRUE, !.body = end - start + 1]

\* http.ServeContent as serveFileEfficiently calls it, with Content-Type,
\* Content-Length and Accept-Ranges already set and no Range header: a failed
\* If-Match is answered 412, an If-Modified-Since of a GET that the file has
\* not changed after is answered 304 without Content-Type and Content-Length,
\* anything else 200 with the whole file
ServeContent(req, ct) ==
    IF req.cond = "if_match"
    THEN [Resp(412, TRUE, ct, NoRange, NoRange) EXCEPT
             !.length = req.size, !.acceptRanges = TRUE]
    ELSE IF req.cond = "if_modified_since" /\ req.method = "GET"
    THEN [Resp(304, TRUE, "", NoRange, NoRange) EXCEPT !.acceptRanges = TRUE]
    ELSE [Resp(200, TRUE, ct, NoRange, NoRange) EXCEPT
             !.length = req.size, !.acceptRanges = TRUE, !.body = req.size]

\* (mutant) a serveFileEfficiently that treats every request as a range request
serveFileEfficientlyAlwaysRange(req, ext) ==
    IF req.served = "absent" THEN Resp(404, TRUE, "text/plain", NoRange, NoRange)
    ELSE IF req.served = "open_err" THEN Resp(500, TRUE, "text/plain", NoRange, NoRange)
    ELSE handleRangeRequest(req.range, MimeType(ext), req.size)

\* ms.serveFileEfficiently on a file of extension ext
serveFileEfficiently(req, ext) ==
    IF req.served = "absent" THEN Resp(404, TRUE, "text/plain", NoRange, NoRange)
    ELSE IF req.served = "open_err" THEN Resp(500, TRUE, "text/plain", NoRange, NoRange)
    ELSE IF req.range.unit = "none"
    THEN ServeContent(req, MimeType(ext))
    ELSE handleRangeRequest(req.range, MimeType(ext), req.size)

\* ms.handleTranscodedMedia
handleTranscodedMedia(req) ==
    IF ~req.ffmpeg THEN Resp(500, TRUE, "text/plain", NoRange, NoRange)
    ELSE IF req.transcode = "err" THEN Resp(500, TRUE, "text/plain", NoRange, NoRange)
    ELSE serveFileEfficiently(req, ".mp4")

\* ms.handleMediaRequest
handleMediaRequest(req) ==
    IF ~fileExists(req.stat) THEN Resp(404, FALSE, "text/plain", NoRange, NoRange)
    ELSE IF req.method = "OPTIONS" THEN Resp(200, TRUE, "", NoRange, NoRange)
    ELSE IF ~IsSupportedFormat(req.ext)[1] THEN Resp(415, TRUE, "text/plain", NoRange, NoRange)
    ELSE IF ~IsSupportedFormat(req.ext)[2] THEN serveFileEfficiently(req, req.ext)
    ELSE handleTranscodedMedia(req)

\* a request arrives
RequestArrives ==
    /\ hphase = "idle"
    /\ hphase' = "received"
    /\ hreq' \in Requests
    /\ UNCHANGED hresp
    /\ UNCHANGED outsideHttp

\* the handler runs to its return
HandleRequest ==
    /\ hphase = "received"
    /\ hphase' = "responded"
    /\ hresp' = handleMediaRequest(hreq)
    /\ UNCHANGED hreq
    /\ UNCHANGED outsideHttp

(***************************************************************************)
(* GetSubtitleTracks and GetAudioTracks.  What ffprobe prints is the       *)
(* sequence of the language tags of the streams, in stream order.          *)
(***************************************************************************)
KCallers == 1..NumTrackCallers

TrackPaths == {"f1"}
TrackKinds == {"subtitle", "audio"}

\* language tags: two of the tags the code prefers, and one it does not
Languages == {"zh", "en", "ja"}

\* the tags tested at transcoder.go 225
PreferredLanguages == {"zh", "zh-CN", "en"}

RECURSIVE SeqsUpTo(_, _)
\* the sequences over S of length at most n
SeqsUpTo(S, n) ==
    IF n = 0 THEN {<<>>}
    ELSE LET shorter == SeqsUpTo(S, n - 1)
         IN shorter \cup {Append(q, x) : q \in {r \in shorter : Len(r) = n - 1}, x \in S}

\* the outputs of a successful probe
ProbeOutputs == SeqsUpTo(Languages, MaxTracks)

NoEntry == [exists |-> FALSE, tracks |-> <<>>]

\* the loop of GetSubtitleTracks: a track is marked default when no track has
\* been appended before it and its language is one of the preferred ones
SubtitleTracksOf(langs) ==
    [i \in 1..Len(langs) |->
        [Index |-> i, Language |-> langs[i],
         IsDefault |-> (i = 1 /\ langs[i] \in PreferredLanguages)]]

\* the loop of GetAudioTracks: the track appended first is marked default
AudioTracksOf(langs) ==
    [i \in 1..Len(langs) |-> [Index |-> i, Language |-> langs[i], IsDefault |-> (i = 1)]]

TracksOf(kind, langs) == IF kind = "subtitle" THEN SubtitleTracksOf(langs) ELSE AudioTracksOf(langs)

\* the map a call of the kind reads and writes
TrackCache(kind) == IF kind = "subtitle" THEN subtitleTracks ELSE audioTracks

NoTrackRet == [how |-> "none", kind |-> "subtitle", path |-> "f1", tracks |-> <<>>]

\* NewTranscoder
InitTracks ==
    /\ subtitleTracks = [f \in TrackPaths |-> NoEntry]
    /\ audioTracks = [f \in TrackPaths |-> NoEntry]
    /\ kpc = [c \in KCallers |-> "idle"]
    /\ kkind = [c \in KCallers |-> "subtitle"]
    /\ kpath = [c \in KCallers |-> "f1"]
    /\ kret = NoTrackRet

\* GetSubtitleTracks(f) or GetAudioTracks(f) up to the test of 'exists': the
\* map is read under the mutex of its kind; an entry is returned, and
\* without one the caller goes on to CheckFFmpeg() and the probe
TrackCall(c, kind, f) ==
    /\ kpc[c] = "idle"
    /\ IF TrackCache(kind)[f].exists
       THEN /\ kret' = [how |-> "cached", kind |-> kind, path |-> f,
                        tracks |-> TrackCache(kind)[f].tracks]
            /\ UNCHANGED <<kpc, kkind, kpath>>
       ELSE /\ kpc' = [kpc EXCEPT ![c] = "checked"]
            /\ kkind' = [kkind EXCEPT ![c] = kind]
            /\ kpath' = [kpath EXCEPT ![c] = f]
            /\ UNCHANGED kret
    /\ UNCHANGED <<subtitleTracks, audioTracks>>
    /\ UNCHANGED outsideTracks

\* the rest of the function: CheckFFmpeg() fails, or ffprobe is run and
\* fails, or it prints langs; then the tracks are built, stored under the
\* mutex and returned
TrackProbe(c, outcome, langs) ==
    /\ kpc[c] = "checked"
    /\ kpc' = [kpc EXCEPT ![c] = "idle"]
    /\ IF outcome = "ok"
       THEN /\ kret' = [how |-> "probed", kind |-> kkind[c], path |-> kpath[c],
                        tracks |-> TracksOf(kkind[c], langs)]
            /\ IF kkind[c] = "subtitle"
               THEN /\ subtitleTracks' = [subtitleTracks EXCEPT ![kpath[c]] =
                                            [exists |-> TRUE, tracks |-> SubtitleTracksOf(langs)]]
                    /\ UNCHANGED audioTracks
               ELSE /\ audioTracks' = [audioTracks EXCEPT ![kpath[c]] =
                                         [exists |-> TRUE, tracks |-> AudioTracksOf(langs)]]
                    /\ UNCHANGED subtitleTracks
       ELSE /\ langs = <<>>
            /\ kret' = [how |-> outcome, kind |-> kkind[c], path |-> kpath[c], tracks |-> <<>>]
            /\ UNCHANGED <<subtitleTracks, audioTracks>>
    /\ kkind' = [kkind EXCEPT ![c] = "subtitle"]
    /\ kpath' = [kpath EXCEPT ![c] = "f1"]
    /\ UNCHANGED outsideTracks

(***************************************************************************)
(* The dispatching loop of StartSearchWithContext and its processResult    *)
(* goroutines, for a search whose responses all have new locations.        *)
(***************************************************************************)
PoolResponses == 1..MaxResponses

InitPool ==
    /\ fnext = 1
    /\ ftask = [i \in PoolResponses |-> "none"]
    /\ fsem = 0
    /\ fctxDone = FALSE

\* the processResult goroutines that have not returned
Fetching == {i \in PoolResponses : ftask[i] = "spawned"}

\* (mutant) a send that never blocks
SlotFreeAlways == TRUE

\* 'semaphore <- struct{}{}' can proceed: the channel of capacity 5 is not full
SlotFree == fsem < DetailPoolSize

\* one iteration of the loop over results for a new location: the slot is
\* taken, then wg.Add(1) and 'go processResult(res)'
PoolDispatch ==
    /\ fnext <= MaxResponses
    /\ SlotFree
    /\ fsem' = fsem + 1
    /\ ftask' = [ftask EXCEPT ![fnext] = "spawned"]
    /\ fnext' = fnext + 1
    /\ UNCHANGED fctxDone
    /\ UNCHANGED outsidePool

\* processResult for response i, to its return: "skipped" (searchCtx was done
\* at its start), "failed" (the description could not be fetched) or
\* "fetched"; the deferred '<-semaphore' runs on each of them
PoolTaskReturn(i, outcome) ==
    /\ ftask[i] = "spawned"
    /\ outcome = "skipped" => fctxDone
    /\ ftask' = [ftask EXCEPT ![i] = outcome]
    /\ fsem' = fsem - 1
    /\ UNCHANGED <<fnext, fctxDone>>
    /\ UNCHANGED outsidePool

\* the 10 s of searchCtx elapse, or the caller cancels ctx
PoolCtxDone ==
    /\ ~fctxDone
    /\ fctxDone' = TRUE
    /\ UNCHANGED <<fnext, ftask, fsem>>
    /\ UNCHANGED outsidePool

(***************************************************************************)
(* NewDeviceControllerWithContext, and the NewDeviceController of the root *)
(* dlna package, as functions of the location and of the description       *)
(* fetched from it.  A string is the sequence of its characters, a service  *)
(* type the sequence of its ":"-separated fields.                          *)
(***************************************************************************)
AVTransport == "AVTransport"

ServiceTypes ==
    {<<"urn", "AVTransport", "1">>, <<"AVTransport">>,
     <<"urn", "RenderingControl", "1">>, <<>>}

ControlURLs == {<<>>, <<"/">>, <<"/", "c">>, <<"c">>}

EventURLs == {<<>>, <<"e">>}

\* an absolute URL of the description with a path, and one without
ControllerLocations == {<<"h", ":", "/", "/", "a", "/", "d">>, <<"h", ":", "/", "/", "a">>}

Services == [ServiceType : ServiceTypes, ControlURL : ControlURLs, EventSubURL : EventURLs]

ServiceLists == UNION {[1..n -> Services] : n \in 0..MaxServices}

\* getDeviceDescriptionWithContext: an error, or the parsed description
Descriptions == [err : BOOLEAN, Service : ServiceLists]

\* strings.Contains(service.ServiceType, id)
Contains(serviceType, id) == \E i \in 1..Len(serviceType) : serviceType[i] = id

\* the index of the service the loop breaks at, 0 if it runs to the end
FirstAVTransport(services) ==
    LET hits == {i \in 1..Len(services) : Contains(services[i].ServiceType, AVTransport)}
    IN IF hits = {} THEN 0 ELSE CHOOSE i \in hits : \A j \in hits : i <= j

\* strings.LastIndex(str, "/") + 1
LastSlash(str) ==
    LET at == {i \in 1..Len(str) : str[i] = "/"}
    IN IF at = {} THEN 0 ELSE CHOOSE i \in at : \A j \in at : j <= i

\* strings.TrimPrefix(str, "/")
TrimSlash(str) == IF Len(str) > 0 /\ str[1] = "/" THEN Tail(str) ELSE str

\* baseURL + strings.TrimPrefix(controlURL, "/")
FullControlURL(loc, controlURL) == SubSeq(loc, 1, LastSlash(loc)) \o TrimSlash(controlURL)

\* a return of (nil, err)
NoController == [ok |-> FALSE, ControlURL |-> <<>>, EventURL |-> <<>>]

\* NewDeviceControllerWithContext
NewDeviceControllerWithContext(loc, d) ==
    IF d.err THEN NoController
    ELSE LET i == FirstAVTransport(d.Service)
             controlURL == IF i = 0 THEN <<>> ELSE d.Service[i].ControlURL
             eventURL == IF i = 0 THEN <<>> ELSE d.Service[i].EventSubURL
         IN IF controlURL = <<>> THEN NoController
            ELSE [ok |-> TRUE, ControlURL |-> FullControlURL(loc, controlURL),
                  EventURL |-> eventURL]

\* NewDeviceController of the root dlna package: no test of controlURL
NewDeviceController(loc, d) ==
    IF d.err THEN NoController
    ELSE LET i == FirstAVTransport(d.Service)
             controlURL == IF i = 0 THEN <<>> ELSE d.Service[i].ControlURL
             eventURL == IF i = 0 THEN <<>> ELSE d.Service[i].EventSubURL
         IN [ok |-> TRUE, ControlURL |-> FullControlURL(loc, controlURL),
             EventURL |-> eventURL]

InitCtl ==
    /\ cphase = "idle"
    /\ location = <<>>
    /\ desc = [err |-> TRUE, Service |-> <<>>]
    /\ controller = NoController
    /\ controller0 = NoController

\* a constructor is called with a location, and the GET of it ends
ConstructorCall ==
    /\ cphase = "idle"
    /\ cphase' = "called"
    /\ location' \in ControllerLocations
    /\ desc' \in Descriptions
    /\ UNCHANGED <<controller, controller0>>
    /\ UNCHANGED outsideCtl

\* the constructor runs to its return
ConstructorReturn ==
    /\ cphase = "called"
    /\ cphase' = "returned"
    /\ controller' = NewDeviceControllerWithContext(location, desc)
    /\ controller0' = NewDeviceController(location, desc)
    /\ UNCHANGED <<location, desc>>
    /\ UNCHANGED outsideCtl

(***************************************************************************)
(* The specifications.                                                     *)
(***************************************************************************)
NextServer ==
    \/ \E t \in Callers, R \in Roots : StartCall(t, R)
    \/ \E t \in Callers : StartEnter(t)
    \/ \E t \in Callers : StartCreate(t)
    \/ \E t \in Callers : StopCall(t)
    \/ \E t \in Callers, e \in BOOLEAN : StopBody(t, e)
    \/ \E s \in Servers, b \in BOOLEAN : GoListen(s, b)
    \/ \E s \in Servers, a \in BOOLEAN : GoServeReturn(s, a)
    \/ \E s \in Servers : GoFailed(s)
    \/ \E s \in Servers : ConnsEnd(s)
    \/ \E s \in Servers : HandlerRead(s)

NextTranscoder ==
    \/ \E c \in TCallers, k \in CacheKeys, f \in BOOLEAN : TranscodeCall(c, k, f)
    \/ \E c \in TCallers : AcquirePermit(c)
    \/ \E c \in TCallers, o \in {"info_fail", "start_fail", "started"} : StartTool(c, o)
    \/ \E c \in TCallers, ok \in BOOLEAN : ToolExit(c, ok)
    \/ \E r \in BOOLEAN : TranscoderCleanup(r)
    \/ ClockTick
    \/ \E f \in OutputFiles : DeleteArtifact(f)

NextPlay ==
    \/ \E i \in PlayCalls, c \in Ctxs : PlayMediaCall(i, c)
    \/ \E i \in PlayCalls, r \in Responses : SetResponse(i, r)
    \/ \E i \in PlayCalls, b \in BOOLEAN : SettleEnd(i, b)
    \/ \E i \in PlayCalls, r \in Responses : PlayResponse(i, r)
    \/ \E i \in PlayCalls : SubCancelOld(i)
    \/ \E i \in PlayCalls : SubStartNew(i)
    \/ \E c \in Ctxs : CancelCtx(c)
    \/ \E s \in Subs : SubExit(s)

NextDisc ==
    \/ \E R \in SUBSET Locations, f \in BOOLEAN : SearchStep(R, f)
    \/ \E l \in Locations : Dispatch(l)
    \/ \E l \in Locations, o \in {"skipped", "failed", "fetched"},
          r \in {"unseen", "seen", "fatal"} : ProcessResult(l, o, r)
    \/ SearchCtxDone
    \/ FinishDone
    \/ FinishCtxCopy
    \/ FinishCtxReturn

NextHttp ==
    \/ RequestArrives
    \/ HandleRequest

NextCtl ==
    \/ ConstructorCall
    \/ ConstructorReturn

NextTracks ==
    \/ \E c \in KCallers, kind \in TrackKinds, f \in TrackPaths : TrackCall(c, kind, f)
    \/ \E c \in KCallers, outcome \in {"ok", "no_ffmpeg", "probe_err"}, langs \in ProbeOutputs :
          TrackProbe(c, outcome, langs)

NextPool ==
    \/ PoolDispatch
    \/ \E i \in PoolResponses, o \in {"skipped", "failed", "fetched"} : PoolTaskReturn(i, o)
    \/ PoolCtxDone

\* the steps of a discoverer that is searched again and again
NextSessions ==
    \/ NextDisc
    \/ StartSearch

\* the state after construction of every subsystem
Init == InitServer /\ InitTranscoder /\ InitPlay /\ InitDisc /\ InitHttp /\ InitCtl /\ InitTracks
           /\ InitPool

SpecServer == Init /\ [][NextServer]_vars

SpecTranscoder == Init /\ [][NextTranscoder]_vars

SpecPlay == Init /\ [][NextPlay]_vars

SpecDisc == Init /\ [][NextDisc]_vars

SpecHttp == Init /\ [][NextHttp]_vars

SpecCtl == Init /\ [][NextCtl]_vars

SpecTracks == Init /\ [][NextTracks]_vars

SpecPool == Init /\ [][NextPool]_vars

SpecSessions == Init /\ [][NextSessions]_vars

\* one search whose goroutines are scheduled: the loop, every processResult
\* that was started and the final select take their next step when they can,
\* and the 10 s of searchCtx elapse
SpecDiscLive == SpecDisc /\ WF_vars(NextDisc)

\* the MediaServer with its goroutines scheduled: a call that is under way
\* takes its next step when it can, a serving goroutine that was spawned
\* reaches ListenAndServe, and one that waits for ms.mu in its error branch
\* gets the mutex if it is free again and again
SpecServerLive ==
    /\ SpecServer
    /\ WF_vars(\E t \in Callers :
                  StartEnter(t) \/ StartCreate(t) \/ \E e \in BOOLEAN : StopBody(t, e))
    /\ WF_vars(\E s \in Servers, b \in BOOLEAN : GoListen(s, b))
    /\ SF_vars(\E s \in Servers : GoFailed(s))

(***************************************************************************)
(* Claims about MediaServer.Start / Stop.                                  *)
(***************************************************************************)

\* C1 (as claimed): Start(R2) while a session rooted at R1 # R2 is running
\* terminates: its inner Stop runs to completion.  Stop begins by taking ms.mu,
\* so a Start that has reached its call of ms.Stop() must never be waiting for
\* a mutex that it holds itself.
C1_StartOtherRootTerminates ==
    \A t \in Callers : pc[t] = "start_stop" => mu # t

\* C2: a Start(R) that finds the server running with root R returns the base URL
\* and changes neither httpServer, mediaPath, isRunning nor any http.Server or
\* serving goroutine (no listener is created).
C2_StartSameRootIsNoop ==
    [][\A t \in Callers :
          (pc[t] = "start_lock" /\ pc'[t] # "start_lock" /\ isRunning /\ mediaPath = arg[t])
          => /\ pc'[t] = "idle"
             /\ last' = "start_same"
             /\ Ret(last') = "url"
             /\ UNCHANGED <<httpServer, mediaPath, isRunning, srvState, gpc, gsrv>>]_vars

\* C2 witness: a Start with the running root has returned
C2_Witness == last = "start_same" /\ isRunning /\ httpServer # 0

\* C3: at every moment at most one http.Server of the MediaServer has an open
\* listener.
C3_AtMostOneListener ==
    Cardinality({s \in Servers : srvState[s] = "listening"}) <= 1

\* C3 witness: a second server listens after the first one was shut down
C3_Witness ==
    \E s1, s2 \in Servers : s1 # s2 /\ srvState[s1] = "closed" /\ srvState[s2] = "listening"

(***************************************************************************)
(* Claims about the Transcoder's cache and permit pool.                    *)
(***************************************************************************)

\* the entry of k is inside its 24 h and its artifact is on disk
WithinTTLOnDisk(k) ==
    /\ transcodingCache[k] # NoPath
    /\ cacheExpiry[k] # NoTime
    /\ ~(now > cacheExpiry[k])
    /\ transcodingCache[k] \in files

\* the step is a call of TranscodeToMp4 by c for k that returns a cache hit
ReturnsHit(c, k) ==
    /\ tpc'[c] = "idle"
    /\ tret'.how = "hit"
    /\ tret'.key = k

\* C4 (as claimed): a successful call registers its artifact for 24 h; a later
\* call with the same key made inside the 24 h while the artifact is on disk
\* returns that same path without starting the tool; a call made when the
\* entry has expired or its file is gone goes on to run the tool.
C4_CacheIdempotence ==
    [][/\ \A c \in TCallers :
             (tpc[c] = "running" /\ tpc'[c] = "idle" /\ tret'.how = "ran")
             => /\ transcodingCache'[tkey[c]] = tout[c]
                /\ cacheExpiry'[tkey[c]] = now + TTLHours
       /\ \A c \in TCallers, k \in CacheKeys :
             TranscodeCall(c, k, TRUE)
             => IF WithinTTLOnDisk(k)
                THEN ReturnsHit(c, k) /\ tret'.path = transcodingCache[k]
                ELSE tpc'[c] = "acquire" /\ tkey'[c] = k]_vars

\* C5: getCachedOutput reports a hit only for an entry whose expiry has not
\* passed and whose file exists, and returns that entry's path; on a miss the
\* key has no entry left in transcodingCache nor in cacheExpiry.
C5_HitOnlyIfValidElseEvicted ==
    [][\A c \in TCallers, k \in CacheKeys, f \in BOOLEAN :
          (/\ tpc[c] = "idle" /\ now' = now /\ semaphore' = semaphore
           /\ IF tpc'[c] = "acquire" THEN tkey'[c] = k /\ f
              ELSE tret'.key = k /\ f = (tret'.how = "hit")
           /\ TranscodeCall(c, k, f))
          => IF ReturnsHit(c, k)
             THEN /\ WithinTTLOnDisk(k)
                  /\ tret'.path = transcodingCache[k]
                  /\ tret'.path \in files'
             ELSE /\ transcodingCache'[k] = NoPath
                  /\ cacheExpiry'[k] = NoTime]_vars

\* C5 witness: a hit was served at the very hour the entry expires, its file on disk
C5_Witness ==
    /\ tret.how = "hit"
    /\ now = cacheExpiry[tret.key]
    /\ tret.path \in files

\* the callers that hold a permit: probing, or running the external tool
PermitHolders == {c \in TCallers : tpc[c] \in {"probe", "running"}}

\* C6: the permit holders are never more than max(1, NumCPU/2); the permits
\* taken are exactly those of the holders (every return path gave its permit
\* back); a call waiting for a permit has returned nothing and can take one as
\* soon as fewer than the pool size are held.
C6_PermitPoolBound ==
    /\ Cardinality(PermitHolders) <= (IF NumCPU \div 2 >= 1 THEN NumCPU \div 2 ELSE 1)
    /\ semaphore = Cardinality(PermitHolders)
    /\ \A c \in TCallers :
          tpc[c] = "acquire"
          => /\ tkey[c] \in CacheKeys
             /\ (Cardinality(PermitHolders) < (IF NumCPU \div 2 >= 1 THEN NumCPU \div 2 ELSE 1))
                   => ENABLED AcquirePermit(c)

\* C6 witness: the pool is exhausted and a further call is blocked on it, after
\* an earlier call has returned an error
C6_Witness ==
    /\ \E c \in TCallers : tpc[c] = "acquire"
    /\ semaphore = PoolSize
    /\ tret.how = "err"

(***************************************************************************)
(* Claims about DeviceController.PlayMediaWithContext.                     *)
(***************************************************************************)

\* C7: in every invocation at most one SetAVTransportURI and at most one Play
\* are sent; a Play is sent only after SetAVTransportURI has returned with
\* success; once SetAVTransportURI has failed the invocation has returned that
\* error, with no Play sent and no subscription task started.
C7_PlaySequencing ==
    \A i \in PlayCalls :
       /\ setSent[i] <= 1
       /\ playSent[i] <= 1
       /\ (ppc[i] = "set" => playSent[i] = 0 /\ subOf[i] = 0)
       /\ (playSent[i] > 0 => setSent[i] = 1 /\ setRes[i] = "ok")
       /\ (subOf[i] > 0 => playRes[i] = "ok" /\ subOf[i] = 1)
       /\ (setRes[i] = "err"
             => ppc[i] = "idle" /\ pret[i] = "set_err" /\ playSent[i] = 0 /\ subOf[i] = 0)

\* C7 witness: one invocation has returned the SetAVTransportURI failure, another
\* has sent its Play after a successful SetAVTransportURI
C7_Witness ==
    \E i, j \in PlayCalls :
       /\ setRes[i] = "err" /\ pret[i] = "set_err"
       /\ setRes[j] = "ok" /\ playSent[j] = 1

(***************************************************************************)
(* Claims about the dedup of StartSearchWithContext.                       *)
(***************************************************************************)

\* StartSearchWithContext has returned (sd.devices is the returned set)
SearchReturned == dpc = "returned" /\ dret \in {"done_nil", "ctx_nil", "ctx_err"}

\* the records of the returned set whose description carries UDN u
RecordsOf(u) == {l \in devices : UDNOf(l) = u}

\* the UDNs that descriptions carry
CarriedUDNs == {UDNOf(l) : l \in Locations} \ {""}

\* C8 (as claimed): once the search has returned, every UDN carried by the
\* description of at least one response has exactly one record in the
\* returned set.
C8_ExactlyOneRecordPerUDN ==
    SearchReturned
    => \A u \in CarriedUDNs :
          (\E l \in processedLocations : UDNOf(l) = u) => Cardinality(RecordsOf(u)) = 1

\* C8 (amended): the returned set never holds two records for one UDN; when
\* the search returns by all detail tasks having finished, it holds exactly one
\* record for a UDN if some response carrying it had its description fetched,
\* and none otherwise (fetches that failed or were skipped leave no record).
C8_AtMostOneRecordPerUDN ==
    SearchReturned
    => \A u \in CarriedUDNs :
          /\ Cardinality(RecordsOf(u)) <= 1
          /\ dret = "done_nil"
             => Cardinality(RecordsOf(u)) =
                   (IF \E l \in Locations : UDNOf(l) = u /\ task[l] \in {"admitted", "duplicate"}
                    THEN 1 ELSE 0)

\* C8 witness: both locations of one UDN were fetched and the search returned
\* with all tasks finished
C8_Witness ==
    /\ SearchReturned
    /\ dret = "done_nil"
    /\ \E l1, l2 \in Locations :
          /\ l1 # l2 /\ UDNOf(l1) = UDNOf(l2) /\ UDNOf(l1) \in CarriedUDNs
          /\ task[l1] = "admitted" /\ task[l2] = "duplicate"

\* C9 (as claimed): once the search has returned with all detail tasks
\* finished, every response whose description fetch failed, or whose
\* description has no UDN, has its own record in the returned set.
C9_FailedOrUDNlessRetained ==
    (SearchReturned /\ dret = "done_nil")
    => \A l \in Locations :
          (task[l] = "failed" \/ (task[l] \in {"admitted", "duplicate"} /\ UDNOf(l) = ""))
          => l \in devices

(***************************************************************************)
(* Claims about MediaServer.handleMediaRequest.                            *)
(***************************************************************************)

\* the extensions of the requests that are neither native nor transcodable
UnsupportedExts == {".txt", ""}

\* C10 (as claimed): a request whose path has an unsupported extension is
\* answered 415, whether or not the file exists.
C10_UnsupportedAlways415 ==
    (hphase = "responded" /\ hreq.ext \in UnsupportedExts) => hresp.status = 415

\* C10 (amended): a request whose path has an unsupported extension is
\* answered 404 when os.Stat of the path fails, 200 when the file exists and
\* the method is OPTIONS, and 415 in every other case.
C10_Unsupported415IfExists ==
    (hphase = "responded" /\ hreq.ext \in UnsupportedExts)
    => hresp.status = (IF hreq.stat # "exists" THEN 404
                       ELSE IF hreq.method = "OPTIONS" THEN 200
                       ELSE 415)

\* C10 witness: a GET of an existing file with an unsupported extension was answered 415
C10_Witness ==
    /\ hphase = "responded"
    /\ hreq.ext = ".txt" /\ hreq.stat = "exists" /\ hreq.method = "GET"
    /\ hresp.status = 415

(***************************************************************************)
(* Claims about the serving of a file and of byte ranges.                  *)
(***************************************************************************)

\* the handler has answered a request for which it served a file: the path
\* exists, the method is not OPTIONS, the format is supported, a transcode
\* that was needed succeeded, and the file to serve could be opened
FileServed ==
    /\ hphase = "responded"
    /\ hreq.stat = "exists" /\ hreq.method # "OPTIONS"
    /\ hreq.ext \in {".mp4", ".m4v", ".MKV"}
    /\ (hreq.ext = ".MKV" => hreq.ffmpeg /\ hreq.transcode = "ok")
    /\ hreq.served = "ok"

\* the Range header has the form bytes=<start>-<end>, either bound optional
SingleRangeForm ==
    /\ hreq.range.unit = "bytes"
    /\ Len(hreq.range.parts) = 2
    /\ hreq.range.parts[1] # BadPart /\ hreq.range.parts[2] # BadPart

\* the start such a header asks for: 0 when it is left out
AskedStart == IF hreq.range.parts[1] = EmptyPart THEN 0 ELSE hreq.range.parts[1]

\* C11: a request with a Range header bytes=<start>-<end> is answered 416
\* exactly when start is outside [0, size), and 206 otherwise; whatever the
\* Range header, a file of size 0 is never answered 206.
C11_416IffStartOutside ==
    FileServed
    => /\ SingleRangeForm
          => /\ hresp.status = 416 <=> (AskedStart < 0 \/ AskedStart >= hreq.size)
             /\ hresp.status \in {206, 416}
       /\ hreq.size = 0 => hresp.status # 206

\* C11 witness: a start beyond the size of a non-empty file was answered 416
C11_Witness ==
    /\ FileServed /\ SingleRangeForm
    /\ hreq.size > 0 /\ AskedStart > hreq.size /\ hreq.range.parts[2] = EmptyPart
    /\ hresp.status = 416

\* the end a header bytes=<start>-<end> asks for (EmptyPart when left out)
AskedEnd == hreq.range.parts[2]

\* C12: for every size and every header bytes=<start>-<end> with start in
\* [0, size), the answer is 206 for the bytes start..end, where end is the
\* asked end, or size-1 when that is missing, >= size or < start; Content-Range
\* is "bytes start-end/size", Content-Length and the body are end-start+1
\* bytes. Every 206 response has 0 <= start <= end <= size-1.
C12_PartialContentRange ==
    FileServed
    => /\ (SingleRangeForm /\ 0 <= AskedStart /\ AskedStart < hreq.size)
          => /\ hresp.status = 206
             /\ hresp.start = AskedStart
             /\ hresp.end = (IF AskedEnd = EmptyPart \/ AskedEnd >= hreq.size
                                \/ AskedEnd < AskedStart
                             THEN hreq.size - 1 ELSE AskedEnd)
             /\ hresp.total = hreq.size
             /\ hresp.length = hresp.end - hresp.start + 1
             /\ hresp.body = hresp.end - hresp.start + 1
       /\ hresp.status = 206
          => 0 <= hresp.start /\ hresp.start <= hresp.end /\ hresp.end <= hreq.size - 1

\* C12 witness: an end before the start was replaced by size-1 in a 206
C12_Witness ==
    /\ FileServed /\ SingleRangeForm
    /\ AskedEnd # EmptyPart /\ AskedEnd < AskedStart
    /\ hresp.status = 206 /\ hresp.end = hreq.size - 1 /\ hresp.start = AskedStart

\* C13 as stated: every GET without a Range header for which a file is
\* served is answered 200 with Content-Length equal to the file's size and
\* Accept-Ranges: bytes, without a Content-Range, and not 206.
C13_NoRangeAlways200 ==
    (FileServed /\ hreq.method = "GET" /\ hreq.range.unit = "none")
    => /\ hresp.status = 200
       /\ hresp.length = hreq.size
       /\ hresp.acceptRanges
       /\ hresp.start = NoRange /\ hresp.end = NoRange /\ hresp.total = NoRange

\* C13: a GET without a Range header for which a file is served is never
\* answered 206 or with a Content-Range and always carries Accept-Ranges:
\* bytes; if it has no conditional header either, it is answered 200 with
\* Content-Length equal to the file's size and the whole file as body.
C13_NoRangeIs200 ==
    (FileServed /\ hreq.method = "GET" /\ hreq.range.unit = "none")
    => /\ hresp.status # 206
       /\ hresp.start = NoRange /\ hresp.end = NoRange /\ hresp.total = NoRange
       /\ hresp.acceptRanges
       /\ hreq.cond = "none"
          => /\ hresp.status = 200
             /\ hresp.length = hreq.size
             /\ hresp.body = hreq.size

\* C13 witness: a GET without Range and without conditional header of a
\* non-empty file was answered 200 with the whole file
C13_Witness ==
    /\ FileServed /\ hreq.method = "GET" /\ hreq.range.unit = "none"
    /\ hreq.cond = "none"
    /\ hreq.size > 0 /\ hresp.status = 200 /\ hresp.body = hreq.size

(***************************************************************************)
(* Claims about the end of a search and the dispatch of locations.         *)
(***************************************************************************)
\* C14: when the overall timeout elapses or the caller cancels, the search
\* returns the devices accumulated so far, possibly none, and does not report
\* the timeout or the cancellation as an error.
C14_TimeoutNeverAnError ==
    (dpc = "returned" /\ searchDone) => dret \in {"done_nil", "ctx_nil"}

\* C15: a location is handed to processResult at most once in a search: the
\* step that takes a slot and starts processResult for l is the one step that
\* finds l outside processedLocations and puts it in, and l never leaves the set.
C15_LocationDispatchedAtMostOnce ==
    [][/\ processedLocations \subseteq processedLocations'
       /\ \A l \in Locations :
             (detailSem' = detailSem + 1 /\ Dispatch(l))
             => /\ task[l] = "none"
                /\ l \notin processedLocations
                /\ l \in processedLocations']_vars

\* C15 witness: a later query returned a location that was dispatched before,
\* and the loop is about to look at it
C15_Witness ==
    /\ dpc = "dispatch" /\ qi > 1
    /\ \E l \in results : l \in processedLocations /\ task[l] \in {"spawned", "admitted"}

\* the devices in the dedup map
Admitted == {k \in DedupKeys : allDevices[k] # NoDevice}

\* C20: the found-callback has been invoked once for each device admitted to
\* the dedup map and for nothing else: the invocations are as many as the
\* admitted devices, no device is reported twice, and the devices reported are
\* the ones in the map.
C20_CallbackOncePerAdmitted ==
    /\ Len(found) = Cardinality(Admitted)
    /\ \A i, j \in 1..Len(found) : found[i] = found[j] => i = j
    /\ {found[i] : i \in 1..Len(found)} = MapValues

\* C20 witness: a device was admitted and reported, and a second response with
\* its UDN was fetched and dropped without a report
C20_Witness ==
    /\ Len(found) >= 1
    /\ \E l \in Locations : task[l] = "duplicate"

(***************************************************************************)
(* Claims about the construction of a DeviceController.                    *)
(***************************************************************************)
\* the description was fetched and has no service whose type contains AVTransport
NoAVTransportService ==
    /\ ~desc.err
    /\ \A i \in 1..Len(desc.Service) : ~Contains(desc.Service[i].ServiceType, AVTransport)

\* what the claim asks of the value r a constructor returned
ResolvesOrFails(r) ==
    /\ NoAVTransportService => ~r.ok
    /\ r.ok => r.ControlURL # <<>>

\* C16: a constructor given a description without a service whose type
\* contains AVTransport returns an error and no controller, and a controller
\* that is returned has a non-empty resolved control URL; this for
\* NewDeviceControllerWithContext and for the NewDeviceController of the root
\* dlna package.
C16_NoAVTransportNoController ==
    cphase = "returned" => ResolvesOrFails(controller) /\ ResolvesOrFails(controller0)

\* C16 for NewDeviceControllerWithContext alone
C16_WithContextResolvesOrFails ==
    cphase = "returned" => ResolvesOrFails(controller)

(***************************************************************************)
(* Claims about cancellation and the subscription task.                    *)
(***************************************************************************)
\* the context of invocation i is cancelled while the invocation is under way
CancelledUnderWay(i) == ppc[i] \in {"set", "settle", "play"} /\ ctxDone[pctx[i]]

\* C17: once the context of an invocation is cancelled during
\* SetAVTransportURI, the settle delay or Play, no step of the invocation puts
\* a Play request on the wire or reaches the start of the subscription, and
\* the invocation returns an error: the cancellation error from the settle
\* delay, the error of the remote call from a remote call.
C17_CancelAbortsSequence ==
    [][\A i \in PlayCalls :
         (CancelledUnderWay(i) /\ ppc'[i] # ppc[i])
         => /\ playSent'[i] = playSent[i]
            /\ subOf'[i] = subOf[i] /\ subState' = subState
            /\ \/ ppc[i] = "settle" /\ ppc'[i] = "play"
               \/ /\ ppc'[i] = "idle"
                  /\ pret'[i] = (IF ppc[i] = "set" THEN "set_err"
                                 ELSE IF ppc[i] = "settle" THEN "ctx_canceled"
                                 ELSE "play_err")]_vars

\* C17 witness: an invocation whose SetAVTransportURI succeeded has returned
\* the cancellation error of the settle delay, with no Play sent and no
\* subscription started
C17_Witness ==
    \E i \in PlayCalls :
       /\ ppc[i] = "idle" /\ pret[i] = "ctx_canceled"
       /\ setRes[i] = "ok" /\ playSent[i] = 0 /\ subOf[i] = 0

\* the subscription tasks that are started and not cancelled: handleSubscription
\* is running and neither its cancel function was called nor its parent
\* context cancelled
ActiveSubscriptions ==
    {s \in Subs : subState[s] = "running" /\ ~subCancelled[s] /\ ~ctxDone[subCtx[s]]}

\* C18: at any time at most one subscription task of the controller is
\* active, whatever the interleaving of the PlayMediaWithContext calls.
C18_AtMostOneActiveSubscription == Cardinality(ActiveSubscriptions) <= 1

(***************************************************************************)
(* Claims about Transcoder.Cleanup and its call from MediaServer.Stop.     *)
(***************************************************************************)
\* C19: when Cleanup returns without error, both maps of the cache are empty,
\* t.tempDir is cleared and no file of the scratch directory is left.
C19_CleanupEmptiesCacheAndScratch ==
    [][(now' = now /\ tpc' = tpc /\ TranscoderCleanup(FALSE))
       => /\ \A k \in CacheKeys : transcodingCache'[k] = NoPath /\ cacheExpiry'[k] = NoTime
          /\ tempDir' = ""
          /\ \A f \in files' : tempDir # "" => f[1] # tempDir]_vars

\* C19 witness: Cleanup has removed the scratch directory with the output of
\* the last transcode that ran, and the cache is empty
C19_Witness ==
    /\ tempDir = ""
    /\ tret.how = "ran" /\ tret.path[1] = "tmp" /\ tret.path \notin files
    /\ \A k \in CacheKeys : transcodingCache[k] = NoPath /\ cacheExpiry[k] = NoTime
    /\ \A f \in files : f[1] # "tmp"

\* C19, the call from Stop: a Stop that finds a running session and whose
\* Shutdown returns no error runs ms.transcoder.Cleanup() before it returns.
C19_StopCallsCleanup ==
    [][\A t \in Callers :
          (isRunning /\ httpServer # 0 /\ StopBody(t, FALSE)) => (~isRunning' /\ cleaned')]_vars

(***************************************************************************)
(* Claims about the outcome of a remote-control call and the settle wait.  *)
(***************************************************************************)
\* C21: a remote-control call made with a live context succeeds exactly when
\* the response has a status in the 2xx range (checked on the
\* SetAVTransportURI call, whose success is what setRes records).
C21_SuccessIff2xx ==
    [][\A i \in PlayCalls : \A r \in Responses :
          (ppc[i] = "set" /\ ppc'[i] # "set" /\ ~ctxDone[pctx[i]] /\ SetResponse(i, r))
          => (setRes'[i] = "ok" <=> (r >= 200 /\ r <= 299))]_vars

\* C22: when SetAVTransportURI succeeded and the context of the invocation
\* is not cancelled, the settle wait ends by the delay elapsing and the Play
\* request is sent; the wait does not make the invocation return.
C22_SettleWaitEndsByDelay ==
    [][\A i \in PlayCalls :
          (ppc[i] = "settle" /\ ~ctxDone[pctx[i]] /\ ppc'[i] # "settle")
          => /\ ppc'[i] = "play"
             /\ playSent'[i] = playSent[i] + 1
             /\ pret'[i] = pret[i]]_vars

(***************************************************************************)
(* Claims about concurrent transcodes and the output paths.                *)
(***************************************************************************)
\* C23: the external tool is started for a key only when no other encode of
\* that key is in flight and the cache holds no valid artifact for the key.
C23_OneEncodePerKey ==
    [][\A c \in TCallers :
          (tpc[c] = "probe" /\ tpc'[c] = "running")
          => /\ ~CacheHit(tkey[c])
             /\ \A d \in TCallers \ {c} : ~(tpc[d] = "running" /\ tkey[d] = tkey[c])]_vars

\* the scratch directory NewTranscoder provisioned
ScratchDir == "tmp"

\* C24: every artifact registered in the cache, and every output file
\* written, lies inside the scratch directory of the transcoder.
C24_ArtifactsInsideScratchDir ==
    /\ \A k \in CacheKeys : transcodingCache[k] # NoPath => transcodingCache[k][1] = ScratchDir
    /\ \A f \in files : f[1] = ScratchDir

\* C25: two different keys never have the same artifact registered in the
\* cache, and two encodes in flight for different keys write different files.
C25_DistinctKeysDistinctOutputs ==
    /\ \A k1, k2 \in CacheKeys :
          (k1 # k2 /\ transcodingCache[k1] # NoPath) => transcodingCache[k1] # transcodingCache[k2]
    /\ \A c, d \in TCallers :
          (tpc[c] = "running" /\ tpc[d] = "running" /\ tkey[c] # tkey[d]) => tout[c] # tout[d]

(***************************************************************************)
(* Claims about the reading of the dedup map at the end of a search.       *)
(***************************************************************************)
\* C26: no write of the dedup map happens while the map is being read for the
\* copy made at the end of the search, and the runtime never aborts on a
\* concurrent map read and write.
C26_NoStoreDuringCopy ==
    [][/\ dpc = "copying" => allDevices' = allDevices
       /\ dret' # "fatal"]_vars

\* C27: once the search has returned, every device the found-callback was
\* invoked with is in sd.devices, the list GetDevices returns.
C27_CallbackDevicesInReturnedList ==
    dpc = "returned" => \A i \in 1..Len(found) : found[i] \in devices

(***************************************************************************)
(* Claims about the running flag and the listener.                         *)
(***************************************************************************)
\* no Start or Stop is under way, and no goroutine of Start is still on its
\* way to listen or to report that it failed
Quiescent ==
    /\ \A t \in Callers : pc[t] = "idle"
    /\ \A s \in Servers : gpc[s] \notin {"spawned", "failed"}

\* C28: whenever ms.isRunning is true and nothing is under way, the listener
\* of ms.httpServer is open.
C28_RunningMeansListening ==
    (isRunning /\ Quiescent) => (httpServer # 0 /\ srvState[httpServer] = "listening")

(***************************************************************************)
(* Claims about Range headers outside the single-range form.               *)
(***************************************************************************)
\* the header lists two ranges
RangeList == hreq.range.unit = "bytes" /\ Len(hreq.range.parts) = 3

\* C29: for a header that lists two ranges whose first start lies in the
\* file, the response is the 206 of the first range alone: it starts at the
\* first start and ends at the first end (size-1 when that end is missing,
\* >= size or < start), and as many bytes are sent.
C29_FirstRangeOfListServed ==
    (FileServed /\ RangeList /\ hreq.range.parts[1] \in 0..(hreq.size - 1))
    => /\ hresp.status = 206
       /\ hresp.start = hreq.range.parts[1]
       /\ hresp.end = (IF hreq.range.firstEnd = EmptyPart \/ hreq.range.firstEnd >= hreq.size
                          \/ hreq.range.firstEnd < hreq.range.parts[1]
                       THEN hreq.size - 1 ELSE hreq.range.firstEnd)
       /\ hresp.body = hresp.end - hresp.start + 1

\* the header has a unit other than bytes, or one or two bounds of which one
\* is not an integer
MalformedRange ==
    \/ hreq.range.unit = "items"
    \/ /\ hreq.range.unit = "bytes" /\ Len(hreq.range.parts) <= 2
       /\ \E i \in 1..Len(hreq.range.parts) : hreq.range.parts[i] = BadPart

\* C30: a Range header with another unit or with a bound that is not an
\* integer is answered 416, and no byte of the file is sent.
C30_MalformedRangeIs416 ==
    (FileServed /\ MalformedRange) => (hresp.status = 416 /\ hresp.body = 0)

(***************************************************************************)
(* Claims about the permit pool, the failure of the tool and the eviction  *)
(* of expired entries.                                                     *)
(***************************************************************************)
\* C31: a call of TranscodeToMp4 that finds a valid entry for its key returns
\* that entry in the same step, whatever the number of permits taken: it
\* takes no permit and does not join the callers waiting for one.
C31_HitTakesNoPermit ==
    [][\A c \in TCallers, k \in CacheKeys :
          (tpc[c] = "idle" /\ CacheHit(k) /\ TranscodeCall(c, k, TRUE))
          => /\ tpc'[c] = "idle"
             /\ semaphore' = semaphore
             /\ tret'.how = "hit" /\ tret'.key = k]_vars

\* C31 witness: a hit was returned while every permit was held by callers
\* that are still running the tool
C31_Witness ==
    /\ tret.how = "hit"
    /\ tret.held = PoolSize
    /\ Cardinality({c \in TCallers : tpc[c] = "running"}) = PoolSize

\* the step is the return of c's call after the tool exited non-zero
ToolFailedFor(c) == tpc[c] = "running" /\ tpc'[c] = "idle" /\ tret'.how = "tool_fail"

\* C32 (as claimed): when the tool exits non-zero the output file is deleted,
\* an error is returned, the permit is released, and both cache maps are after
\* the call what they were before it.  Every call that goes on to the tool
\* can end in its failure, so this asks that neither the lookup with which
\* such a call starts nor the failing return changes the maps.
C32_MapsAsBeforeTheCall ==
    [][\A c \in TCallers :
          /\ ToolFailedFor(c)
              => /\ tout[c] \notin files'
                 /\ tret'.path = NoPath /\ tret'.key = tkey[c]
                 /\ semaphore' = semaphore - 1
                 /\ transcodingCache' = transcodingCache /\ cacheExpiry' = cacheExpiry
          /\ (tpc[c] = "idle" /\ tpc'[c] = "acquire")
              => (transcodingCache' = transcodingCache /\ cacheExpiry' = cacheExpiry)]_vars

\* C32 (amended): when the tool exits non-zero the output file is deleted, an
\* error is returned, the permit is released, and the return registers
\* nothing: both cache maps are what they were when the tool exited.
C32_FailedToolRegistersNothing ==
    [][\A c \in TCallers :
          ToolFailedFor(c)
          => /\ tout[c] \notin files'
             /\ tret'.path = NoPath /\ tret'.key = tkey[c]
             /\ semaphore' = semaphore - 1
             /\ tret'.held = semaphore - 1
             /\ transcodingCache' = transcodingCache /\ cacheExpiry' = cacheExpiry]_vars

\* C32 witness: a call has returned the failure of the tool and no permit is
\* held; its output file is gone, its key has no entry, and the entry that
\* another key had when the tool exited is still registered
C32_Witness ==
    /\ tret.how = "tool_fail"
    /\ tret.held = 0 /\ semaphore = 0
    /\ transcodingCache[tret.key] = NoPath
    /\ OutputFile(tempDir, tret.key) \notin files
    /\ \E k \in CacheKeys : transcodingCache[k] # NoPath


\* the two cache maps have the same keys
SameKeySet == \A k \in CacheKeys : (transcodingCache[k] = NoPath) <=> (cacheExpiry[k] = NoTime)

\* a step that looks a key up (an idle caller goes on to the permit pool, or a
\* return is recorded while every caller stays where it is, or the step is a
\* call that repeats the last return) leaves no entry whose expiry has passed
\* in either map, whatever the key, and the file of every entry it evicted is
\* gone from disk
LookupEvictsAllExpired ==
    \A c \in TCallers :
       (/\ tpc[c] = "idle" /\ now' = now /\ semaphore' = semaphore /\ tout' = tout
        /\ tempDir' = tempDir /\ (tpc'[c] = "acquire" \/ tpc' = tpc)
        /\ \/ tpc'[c] = "acquire"
           \/ tret' # tret
           \/ /\ cacheExpiry' # cacheExpiry
              /\ \E j \in CacheKeys, f \in BOOLEAN : TranscodeCall(c, j, f))
       => \A k \in CacheKeys :
             /\ cacheExpiry'[k] # NoTime => ~(now > cacheExpiry'[k])
             /\ (cacheExpiry[k] # NoTime /\ now > cacheExpiry[k])
                   => /\ transcodingCache'[k] = NoPath
                      /\ transcodingCache[k] \notin files'

C34_ProbeAtMostOncePerPath ==
    [][\A c \in KCallers :
          /\ (kpc[c] = "checked" /\ kpc'[c] = "idle" /\ kret'.how \in {"probed", "probe_err"})
                => ~TrackCache(kkind[c])[kpath[c]].exists
          /\ (kpc[c] = "checked" /\ kpc'[c] = "idle" /\ kret'.how # "probed")
                => (subtitleTracks' = subtitleTracks /\ audioTracks' = audioTracks)
          /\ \A kind \in TrackKinds, f \in TrackPaths :
                (TrackCache(kind)[f].exists /\ TrackCall(c, kind, f))
                => (kret'.how = "cached" /\ kret'.tracks = TrackCache(kind)[f].tracks)]_vars

\* the tracks of a list that are marked default
Defaults(tracks) == {i \in 1..Len(tracks) : tracks[i].IsDefault}

\* the tracks of a list whose language is a preferred one
Preferred(tracks) == {i \in 1..Len(tracks) : tracks[i].Language \in PreferredLanguages}

\* C35: in every cached subtitle list the tracks marked default are the first
\* track whose language is preferred, if there is one, and no track
\* otherwise; in every cached audio list that is not empty exactly the first
\* track is marked default.
C35_DefaultTrackMarking ==
    \A f \in TrackPaths :
       /\ subtitleTracks[f].exists
             => LET t == subtitleTracks[f].tracks
                IN /\ Cardinality(Defaults(t)) <= 1
                   /\ Defaults(t) = {i \in Preferred(t) : \A j \in Preferred(t) : i <= j}
       /\ (audioTracks[f].exists /\ audioTracks[f].tracks # <<>>)
             => Defaults(audioTracks[f].tracks) = {1}

(***************************************************************************)
(* Claims about the permit pool of a search.                               *)
(***************************************************************************)
\* C36: at most 5 processResult goroutines are running at any moment; the
\* permits taken are exactly those of the running ones (each of the three
\* ways out has given its permit back); with 5 running the dispatching loop
\* cannot start another, and with fewer it can.
C36_AtMostFiveFetches ==
    /\ Cardinality(Fetching) <= 5
    /\ fsem = Cardinality(Fetching)
    /\ fnext <= MaxResponses => (ENABLED PoolDispatch <=> Cardinality(Fetching) < 5)

\* C36 witness: five tasks are running and the loop is held before the next
\* response, after a task that found searchCtx done has returned its permit
C36_Witness ==
    /\ Cardinality(Fetching) = 5
    /\ fnext <= MaxResponses
    /\ \E i \in PoolResponses : ftask[i] = "skipped"


(***************************************************************************)
(* Claims about the handlers' reads of the root directory.                 *)
(***************************************************************************)
\* C37: no request handler reads ms.mediaPath while a Start is between its
\* Lock of ms.mu and its write of the field.
C37_RootReadUnderMutex == hread # "racing"

(***************************************************************************)
(* Claims about the device records of a search session.                    *)
(***************************************************************************)
\* C38: within a call of StartSearchWithContext a record enters the dedup map
\* only by the processResult of a response that finds its UDN absent, and a
\* record in the map is never replaced or removed (a later response with the
\* same UDN changes nothing); the step that starts the next call empties
\* sd.devices and begins with an empty map.
C38_RecordNeverReplaced ==
    [][/\ session' = session
          => \A k \in DedupKeys :
                /\ allDevices[k] # NoDevice => allDevices'[k] = allDevices[k]
                /\ (allDevices[k] = NoDevice /\ allDevices'[k] # NoDevice)
                   => /\ DedupKey(allDevices'[k]) = k
                      /\ task[allDevices'[k]] = "spawned"
                      /\ task'[allDevices'[k]] = "admitted"
       /\ session' # session
          => /\ devices' = {}
             /\ \A k \in DedupKeys : allDevices'[k] = NoDevice]_vars

\* C38 witness: in a second call, made after a call that stored a device, one
\* location of a UDN was admitted and a second response with the UDN, from
\* another location, was fetched and dropped; sd.devices is still empty
C38_Witness ==
    /\ session = 2
    /\ devices = {}
    /\ \E l1, l2 \in Locations :
          /\ l1 # l2 /\ DedupKey(l1) = DedupKey(l2)
          /\ task[l1] = "admitted" /\ task[l2] = "duplicate"
          /\ allDevices[DedupKey(l1)] = l1

(***************************************************************************)
(* Claims about the termination of a search.                               *)
(***************************************************************************)
\* C39 (as claimed): with every query and every detail fetch terminating and
\* the goroutines scheduled, StartSearchWithContext returns.
C39_SearchAlwaysReturns == <>(dpc = "returned")

(***************************************************************************)
(* Claims about the serving goroutine's failure branch.                    *)
(***************************************************************************)
\* C40 (as claimed): when ListenAndServe of a goroutine that Start launched has
\* failed, ms.isRunning eventually becomes false.
C40_FailureClearsRunning ==
    \A s \in Servers : (gpc[s] = "failed") ~> ~isRunning

====
